---- MODULE Spec2Model ----
(***************************************************************************)
(* Model of the multipart transfer engine of s3handler.                    *)
(*                                                                         *)
(*  - blocking UploadRequestPool / DownloadRequestPool                     *)
(*    (src/src/blocking/upload_pool.rs, download_pool.rs) driven by        *)
(*    Handler::multipart_uplodad and Handler::get (src/src/blocking/mod.rs)*)
(*  - the async S3Pool multipart upload                                    *)
(*    (src/src/tokio_async/primitives/s3.rs)                               *)
(*                                                                         *)
(* A job is a pair: <<part_number, payload length>> for an upload,         *)
(* <<start, end>> for a download.  A result is a record with a tag         *)
(* ("Ok", "ReqwestError", "RequestPoolError"), the job and the value the   *)
(* server returned (the ETag of an uploaded part).                         *)
(***************************************************************************)
EXTENDS Integers, Sequences, FiniteSets, TLC

\* ---- bounds of the model -------------------------------------------------
MaxWorkers == 2
MaxPartSize == 2
MaxSize == 4
MaxETag == 2
MaxByte == 2
MaxSendAttempts == 2
MaxObjectSize == 12
MaxSplitSize == 3
MaxPairs == 2
MaxHeaders == 2
MaxObjects == 3

VARIABLES
    kind,          \* "upload" | "download" | "async": which transfer runs
    total_worker,  \* pool field total_worker
    plan,          \* the jobs the handler is going to dispatch, in order
    dispatched,    \* how many of them run() has been called for
    ch_data,       \* pool field ch_data: "Some" | "None" (the job Sender)
    job_queue,     \* content of the job channel
    ch_result,     \* content of the result channel
    total_jobs,    \* pool field total_jobs
    data,          \* download pool field data (the shared buffer)
    results,       \* the local Vec of wait()
    close_sent,    \* stop sentinels sent by close()
    waitRet,       \* what wait() returned
    handlerRet,    \* what the handler (multipart_uplodad / push) returned
    completion,    \* the completion requests issued, each one a manifest
    callerPc,      \* position of the calling thread
    wpc,           \* position of every worker thread
    wjob,          \* the job a worker is processing
    recv_lock,     \* Mutex around the job Receiver   (a_ch_r)
    result_lock,   \* Mutex around the result Sender  (a_ch_result_s)
    got,           \* per job: what its HTTP request returned
    send_attempts  \* per worker: failed sends of the result it is pushing,
                   \* counted round MaxSendAttempts (the code keeps no count)

poolVars == <<kind, total_worker, plan, dispatched, ch_data, job_queue,
              ch_result, total_jobs, data, results, close_sent, waitRet,
              handlerRet, completion, callerPc, wpc, wjob, recv_lock,
              result_lock, got, send_attempts>>

\* ---- state of the other components ------------------------------------------
VARIABLES
    h_pc,           \* position in Handler::multipart_uplodad / Handler::get
    h_kind,         \* "upload" | "download" | "async" | "async_download"
    h_size,         \* file_size / size of the object
    h_part_size,    \* Handler field part_size
    worker_number,  \* local worker_number handed to the pool constructor
    run_jobs        \* the jobs handed to run(), in order

handlerVars == <<h_pc, h_kind, h_size, h_part_size, worker_number, run_jobs>>

VARIABLES
    rq_pc,          \* position in Handler::request
    auth_type,      \* "aws2" | "aws4": the client behind s3_client
    client_region,  \* the region the client signs with (AWS4Client.region)
    self_region,    \* Handler field region
    origin_region,  \* local origin_region
    region_at_call, \* the client's region when request() was called
    rq_call,        \* method, uri, query, headers and payload of the call
    rq_sent,        \* the HTTP requests issued by the call, in order
    rq_first,       \* the response to the first request
    rq_second,      \* the response to the re-issued request
    rq_ret          \* how the call ended: "none" | "Ok" | "Err" | "panic"

requestVars == <<rq_pc, auth_type, client_region, self_region, origin_region,
                 region_at_call, rq_call, rq_sent, rq_first, rq_second,
                 rq_ret>>

VARIABLES
    sg_pc,            \* position of the signer: "idle" | "start" | "signed"
    sg_path,          \* "blocking" (AWS4Client::request) | "async" (V4Authorizer)
    now,              \* the instant read by Utc::now() for the request
    secret_key,       \* the secret access key
    sg_region,        \* the signer's region
    sg_service,       \* V4Authorizer field service ("s3" in AWS4Client::request)
    sg_auth_str,      \* V4Authorizer field auth_str, split at its '-'
    sg_action,        \* V4Authorizer field action
    sg_request,       \* hash of the canonical request that is signed
    x_amz_date,       \* value of the x-amz-date request header
    string_to_signed, \* the string to sign, line by line
    signature,        \* the signature
    authorization     \* the Authorization request header, field by field

signVars == <<sg_pc, sg_path, now, secret_key, sg_region, sg_service,
              sg_auth_str, sg_action, sg_request, x_amz_date, string_to_signed,
              signature, authorization>>

VARIABLES
    call_pc,   \* "idle" | "start" | "returned": one call of a pure function
    call_fn,   \* the function that is called
    call_arg,  \* its arguments
    call_ret   \* what it returned

callVars == <<call_pc, call_fn, call_arg, call_ret>>

VARIABLES
    canal_pc,           \* "idle" | "open" | "done": life of one Canal value
    up_pool,            \* Canal field up_pool
    upstream_object,    \* Canal field upstream_object
    down_pool,          \* Canal field down_pool
    downstream_object,  \* Canal field downstream_object
    default_pool,       \* Canal field default
    pool_ops,           \* the DataPool operations performed, in order
    canal_ret           \* result of the last Canal method

canalVars == <<canal_pc, up_pool, upstream_object, down_pool,
               downstream_object, default_pool, pool_ops, canal_ret>>

VARIABLES
    ls_pc,        \* "idle" | "fresh" | "listed" | "failed": an S3Pool and its listing
    ls_body,      \* the body of the listing response, element by element
    objects,      \* S3Pool field objects
    ls_returned   \* what the calls of next_object returned, in order

listVars == <<ls_pc, ls_body, objects, ls_returned>>

VARIABLES
    cg_pc,          \* "idle" | "ready" | "panicked": a Handler under change_* calls
    cg_region,      \* Handler field region
    cg_auth_type,   \* Handler field auth_type
    cg_format,      \* Handler field format
    cg_url_style,   \* Handler field url_style
    cg_client,      \* the kind of Handler field s3_client
    cg_call         \* the last change_* call: method and command

changeVars == <<cg_pc, cg_region, cg_auth_type, cg_format, cg_url_style,
                cg_client, cg_call>>

VARIABLES
    lg_pc,        \* "idle" | "send" | "answered" | "done": _aws_v4_request of lib.rs
    lg_format,    \* Handler field format
    lg_region,    \* argument region of the running invocation
    lg_endpoint,  \* argument endpoint of the running invocation
    lg_response,  \* the response to the request of the running invocation
    lg_sent,      \* the number of HTTP requests sent
    lg_ret        \* what the call returned

legacyVars == <<lg_pc, lg_format, lg_region, lg_endpoint, lg_response, lg_sent,
                lg_ret>>

restVars == <<listVars, changeVars, legacyVars>>

otherVars == <<handlerVars, requestVars, signVars, callVars, canalVars, restVars>>

notHandlerVars == <<poolVars, requestVars, signVars, callVars, canalVars, restVars>>
notRequestVars == <<poolVars, handlerVars, signVars, callVars, canalVars, restVars>>
notSignVars == <<poolVars, handlerVars, requestVars, callVars, canalVars, restVars>>
notCallVars == <<poolVars, handlerVars, requestVars, signVars, canalVars, restVars>>
notCanalVars == <<poolVars, handlerVars, requestVars, signVars, callVars, restVars>>
notListVars == <<poolVars, handlerVars, requestVars, signVars, callVars,
                 canalVars, changeVars, legacyVars>>
notChangeVars == <<poolVars, handlerVars, requestVars, signVars, callVars,
                   canalVars, listVars, legacyVars>>
notLegacyVars == <<poolVars, handlerVars, requestVars, signVars, callVars,
                   canalVars, listVars, changeVars>>

vars == <<poolVars, otherVars>>

HandlerIdle ==
    /\ h_pc = "idle"
    /\ h_kind = "none"
    /\ h_size = 0
    /\ h_part_size = 0
    /\ worker_number = 0
    /\ run_jobs = <<>>

NoResponse == [status |-> "none", region |-> "absent", body |-> "none"]

RequestIdle ==
    /\ rq_pc = "idle"
    /\ auth_type = "none"
    /\ client_region = "none"
    /\ self_region = "none"
    /\ origin_region = "none"
    /\ region_at_call = "none"
    /\ rq_call = "none"
    /\ rq_sent = <<>>
    /\ rq_first = NoResponse
    /\ rq_second = NoResponse
    /\ rq_ret = "none"

SignIdle ==
    /\ sg_pc = "idle"
    /\ sg_path = "none"
    /\ now = <<>>
    /\ secret_key = "none"
    /\ sg_region = "none"
    /\ sg_service = "none"
    /\ sg_auth_str = <<>>
    /\ sg_action = "none"
    /\ sg_request = "none"
    /\ x_amz_date = <<>>
    /\ string_to_signed = <<>>
    /\ signature = <<>>
    /\ authorization = <<>>

CallIdle ==
    /\ call_pc = "idle"
    /\ call_fn = "none"
    /\ call_arg = <<>>
    /\ call_ret = <<>>

CanalIdle ==
    /\ canal_pc = "idle"
    /\ up_pool = "None"
    /\ upstream_object = "None"
    /\ down_pool = "None"
    /\ downstream_object = "None"
    /\ default_pool = "none"
    /\ pool_ops = <<>>
    /\ canal_ret = "none"

ListIdle ==
    /\ ls_pc = "idle"
    /\ ls_body = <<>>
    /\ objects = <<>>
    /\ ls_returned = <<>>

ChangeIdle ==
    /\ cg_pc = "idle"
    /\ cg_region = "none"
    /\ cg_auth_type = "none"
    /\ cg_format = "none"
    /\ cg_url_style = "none"
    /\ cg_client = "none"
    /\ cg_call = <<>>

LegacyIdle ==
    /\ lg_pc = "idle"
    /\ lg_format = "none"
    /\ lg_region = "none"
    /\ lg_endpoint = "none"
    /\ lg_response = NoResponse
    /\ lg_sent = 0
    /\ lg_ret = "none"

RestIdle == ListIdle /\ ChangeIdle /\ LegacyIdle

\* the components that are not part of the transfer pool are at rest
OtherIdle ==
    HandlerIdle /\ RequestIdle /\ SignIdle /\ CallIdle /\ CanalIdle /\ RestIdle

callerVars == <<dispatched, ch_data, total_jobs, results, close_sent, waitRet,
                handlerRet, completion, callerPc>>

\* ---- helpers -------------------------------------------------------------
Min(a, b) == IF a <= b THEN a ELSE b

NoJob == <<0, 0>>
Pending == [st |-> "pending", val |-> 0]
NoRet == [tag |-> "none", manifest |-> <<>>, buf |-> <<>>]
FreeLock == [owner |-> 0, poisoned |-> FALSE]

\* MultiUploadParameters { part_number: 0, ..Default::default() }
UploadStop == <<0, 0>>
\* MultiDownloadParameters { ..Default::default() }
DownloadStop == <<0, 0>>

StopJob(k) == IF k = "upload" THEN UploadStop ELSE DownloadStop

\* the worker's test for the stop sentinel
IsStop(k, p) == IF k = "upload" THEN p[1] = 0 ELSE p[1] = 0 /\ p[2] = 0

\* ---- the job lists the handlers dispatch ----------------------------------
RECURSIVE UploadLoop(_, _, _)
UploadLoop(part, file_size, ps) ==
    LET total_part_number == (file_size \div ps) + 1
        len == IF part = total_part_number
               THEN file_size - (part - 1) * ps
               ELSE ps
    IN  IF part * ps >= file_size
        THEN << <<part, len>> >>
        ELSE << <<part, len>> >> \o UploadLoop(part + 1, file_size, ps)

\* variant: the upload loop counts its parts from 0
UploadJobs_fromZero(file_size, ps) == UploadLoop(0, file_size, ps)

\* `let mut part = 0usize; loop { part += 1; .. }`
UploadJobs(file_size, ps) == UploadLoop(1, file_size, ps)

RECURSIVE DownloadLoop(_, _, _)
DownloadLoop(part, size, ps) ==
    IF part * ps < size
    THEN << <<part * ps, Min(size, (part + 1) * ps)>> >>
         \o DownloadLoop(part + 1, size, ps)
    ELSE <<>>

\* variant: the download loop starts at the second range
DownloadJobs_fromSecond(size, ps) == DownloadLoop(1, size, ps)

DownloadJobs(size, ps) == DownloadLoop(0, size, ps)

RECURSIVE AsyncLoop(_, _, _, _)
AsyncLoop(part_number, start, len, ps) ==
    IF start < len
    THEN LET end == IF start + ps >= len THEN len ELSE start + ps
         IN  << <<part_number + 1, end - start>> >>
             \o AsyncLoop(part_number + 1, start + ps, len, ps)
    ELSE <<>>

AsyncJobs(len, ps) == AsyncLoop(0, 0, len, ps)

\* S3Pool::generate_part_download_requests: one request per turn of
\* `while start < size`, with Range bytes=start-(end - 1)
RECURSIVE AsyncRanges(_, _, _)
AsyncRanges(start, size, ps) ==
    IF start < size
    THEN LET end == IF start + ps >= size THEN size ELSE start + ps
         IN  << <<start, end>> >> \o AsyncRanges(start + ps, size, ps)
    ELSE <<>>

JobsOf(k, size, ps) ==
    CASE k = "upload"   -> UploadJobs(size, ps)
      [] k = "download" -> DownloadJobs(size, ps)
      [] k = "async_download" -> AsyncRanges(0, size, ps)
      [] OTHER          -> AsyncJobs(size, ps)

\* position of a job in the plan (jobs of one transfer are pairwise distinct)
JobIndex(p) == CHOOSE i \in 1..Len(plan) : plan[i] = p

\* ---- channel endpoints -----------------------------------------------------
Workers == 1..total_worker

\* a thread that has returned or unwound has dropped its Arc clones
Alive(w) == wpc[w] \notin {"returned", "panicked"}

\* the job Receiver lives as long as one worker holds an Arc to it
JobRxAlive == \E w \in Workers : Alive(w)

\* the result Sender lives as long as one worker holds an Arc to it
ResultTxAlive == \E w \in Workers : Alive(w)

\* the result Receiver is a field of the pool, owned by the caller
ResultRxAlive == callerPc \in {"run", "wait"}

Holds(lock, w) == lock.owner = w

\* ---- initial state: the pool right after new() ------------------------------
Init ==
    \E k \in {"upload", "download", "async"}, W \in 1..MaxWorkers,
       ps \in 1..MaxPartSize :
      \E size \in (ps + 1)..MaxSize :
        /\ kind = k
        /\ total_worker = IF k = "async" THEN 0 ELSE W
        /\ plan = JobsOf(k, size, ps)
        /\ dispatched = 0
        /\ ch_data = IF k = "async" THEN "None" ELSE "Some"
        /\ job_queue = <<>>
        /\ ch_result = <<>>
        /\ total_jobs = 0
        /\ data = IF k = "download" THEN [i \in 1..size |-> 0] ELSE <<>>
        /\ results = <<>>
        /\ close_sent = 0
        /\ waitRet = NoRet
        /\ handlerRet = "none"
        /\ completion = <<>>
        /\ callerPc = IF k = "async" THEN "join" ELSE "run"
        /\ wpc = [w \in 1..(IF k = "async" THEN 0 ELSE W) |-> "spawned"]
        /\ wjob = [w \in 1..(IF k = "async" THEN 0 ELSE W) |-> NoJob]
        /\ recv_lock = FreeLock
        /\ result_lock = FreeLock
        /\ got = [i \in 1..Len(JobsOf(k, size, ps)) |-> Pending]
        /\ send_attempts = [w \in 1..(IF k = "async" THEN 0 ELSE W) |-> 0]
        /\ OtherIdle


\* ---- results ----------------------------------------------------------------
OkResult(p, v) == [tag |-> "Ok", job |-> p, val |-> v]
ErrResult(t) == [tag |-> t, job |-> NoJob, val |-> 0]

\* dropping a MutexGuard; a guard dropped while its thread panics poisons
Release(lock, w, panicking) ==
    IF lock.owner = w
    THEN [owner |-> 0, poisoned |-> lock.poisoned \/ panicking]
    ELSE lock

\* ---- worker threads -----------------------------------------------------------
\* let recv_end = a_ch_r2.lock().expect("worker recv end is expected");
WorkerLockRecv(w) ==
    /\ wpc[w] = "spawned"
    /\ recv_lock.owner = 0
    /\ IF recv_lock.poisoned
       THEN /\ wpc' = [wpc EXCEPT ![w] = "panicked"]
            /\ UNCHANGED recv_lock
       ELSE /\ recv_lock' = [recv_lock EXCEPT !.owner = w]
            /\ wpc' = [wpc EXCEPT ![w] = "acquire"]
    /\ UNCHANGED <<send_attempts, otherVars>>
    /\ UNCHANGED <<kind, total_worker, plan, job_queue, ch_result, data, wjob,
                   result_lock, got>>
    /\ UNCHANGED callerVars

\* let result_send_back_ch = acquire(&a_ch_result_s2);
\* (acquire sleeps and retries for ever on a poisoned mutex)
WorkerAcquireResult(w) ==
    /\ wpc[w] = "acquire"
    /\ result_lock.owner = 0
    /\ ~result_lock.poisoned
    /\ result_lock' = [result_lock EXCEPT !.owner = w]
    /\ wpc' = [wpc EXCEPT ![w] = "recv"]
    /\ UNCHANGED <<send_attempts, otherVars>>
    /\ UNCHANGED <<kind, total_worker, plan, job_queue, ch_result, data, wjob,
                   recv_lock, got>>
    /\ UNCHANGED callerVars

\* variant: the guards are dropped as soon as a job has been pulled, so that
\* the next worker can pull while this one executes its request
WorkerRecv_unlock(w) ==
    /\ wpc[w] = "recv"
    /\ IF job_queue # <<>>
       THEN LET p == Head(job_queue) IN
            /\ job_queue' = Tail(job_queue)
            /\ recv_lock' = Release(recv_lock, w, FALSE)
            /\ result_lock' = Release(result_lock, w, FALSE)
            /\ IF IsStop(kind, p)
               THEN /\ wpc' = [wpc EXCEPT ![w] = "returned"]
                    /\ UNCHANGED wjob
               ELSE /\ wpc' = [wpc EXCEPT ![w] = "request"]
                    /\ wjob' = [wjob EXCEPT ![w] = p]
       ELSE /\ ch_data = "None"
            /\ wpc' = [wpc EXCEPT ![w] = "closed"]
            /\ UNCHANGED <<job_queue, wjob, recv_lock, result_lock>>
    /\ UNCHANGED <<send_attempts, otherVars>>
    /\ UNCHANGED <<kind, total_worker, plan, ch_result, data, got>>
    /\ UNCHANGED callerVars

\* match recv_end.recv() { .. }  and the test for the stop sentinel
WorkerRecv(w) ==
    /\ wpc[w] = "recv"
    /\ IF job_queue # <<>>
       THEN LET p == Head(job_queue) IN
            /\ job_queue' = Tail(job_queue)
            /\ IF IsStop(kind, p)
               THEN /\ wpc' = [wpc EXCEPT ![w] = "returned"]
                    /\ recv_lock' = Release(recv_lock, w, FALSE)
                    /\ result_lock' = Release(result_lock, w, FALSE)
                    /\ UNCHANGED wjob
               ELSE /\ wpc' = [wpc EXCEPT ![w] = "request"]
                    /\ wjob' = [wjob EXCEPT ![w] = p]
                    /\ UNCHANGED <<recv_lock, result_lock>>
       ELSE \* recv() fails only when the queue is empty and the Sender is gone
            /\ ch_data = "None"
            /\ wpc' = [wpc EXCEPT ![w] = "closed"]
            /\ UNCHANGED <<job_queue, wjob, recv_lock, result_lock>>
    /\ UNCHANGED <<send_attempts, otherVars>>
    /\ UNCHANGED <<kind, total_worker, plan, ch_result, data, got>>
    /\ UNCHANGED callerVars

\* result_send_back_ch.send(Ok(..)) and its retry loop: the send fails only
\* when the Receiver is gone, and then the loop retries for ever
SendOk(w, r) ==
    IF ResultRxAlive
    THEN /\ ch_result' = Append(ch_result, r)
         /\ wpc' = [wpc EXCEPT ![w] = "recv"]
    ELSE /\ wpc' = [wpc EXCEPT ![w] = "resend"]
         /\ UNCHANGED ch_result

\* s3_client.request("PUT", ..) of an upload part and the match on its result
UploadRequest(w) ==
    LET p == wjob[w]
        j == JobIndex(p)
    IN  \/ \E etag \in 1..MaxETag :
             /\ got' = [got EXCEPT ![j] = [st |-> "ok", val |-> etag]]
             /\ SendOk(w, OkResult(p, etag))
        \/ /\ got' = [got EXCEPT ![j] = [st |-> "err", val |-> 0]]
           /\ wpc' = [wpc EXCEPT ![w] = "failed"]
           /\ UNCHANGED ch_result

\* variant: the body is copied to the start of the buffer, not to its range
CopyFromSlice_noOffset(buf, p, body) ==
    [i \in 1..Len(buf) |-> IF i <= Len(body) THEN body[i] ELSE buf[i]]

\* inner[p.0..p.1].copy_from_slice(&r.1)
CopyFromSlice(buf, p, body) ==
    [i \in 1..Len(buf) |->
        IF p[1] < i /\ i <= p[2] THEN body[i - p[1]] ELSE buf[i]]

\* s3_client.request("GET", ..) of a range and the match on its result
DownloadRequest(w) ==
    LET p == wjob[w]
        j == JobIndex(p)
    IN  \/ \E b \in 1..MaxByte :
             LET body == [i \in 1..(p[2] - p[1]) |-> b] IN
             /\ got' = [got EXCEPT ![j] = [st |-> "ok", val |-> b]]
             /\ data' = CopyFromSlice(data, p, body)
             /\ SendOk(w, OkResult(p, 0))
        \/ \* r.1.len() != p.1 - p.0: logged, nothing is sent
           /\ got' = [got EXCEPT ![j] = [st |-> "short", val |-> 0]]
           /\ wpc' = [wpc EXCEPT ![w] = "recv"]
           /\ UNCHANGED <<ch_result, data>>
        \/ /\ got' = [got EXCEPT ![j] = [st |-> "err", val |-> 0]]
           /\ wpc' = [wpc EXCEPT ![w] = "failed"]
           /\ UNCHANGED <<ch_result, data>>

WorkerRequest(w) ==
    /\ wpc[w] = "request"
    /\ IF kind = "upload"
       THEN UploadRequest(w) /\ UNCHANGED data
       ELSE DownloadRequest(w)
    /\ send_attempts' = [send_attempts EXCEPT
                            ![w] = IF wpc'[w] = "resend" THEN 1 ELSE 0]
    /\ UNCHANGED otherVars
    /\ UNCHANGED <<kind, total_worker, plan, job_queue, wjob, recv_lock,
                   result_lock>>
    /\ UNCHANGED callerVars

\* while send_result.is_err() { sleep(1000 ms); send_result = ..send(Ok(..)) }
\* one more turn of the loop; nothing but a successful send ends it
WorkerResend(w) ==
    /\ wpc[w] = "resend"
    /\ IF ResultRxAlive
       THEN /\ ch_result' =
                 Append(ch_result,
                        OkResult(wjob[w],
                                 IF kind = "upload"
                                 THEN got[JobIndex(wjob[w])].val ELSE 0))
            /\ wpc' = [wpc EXCEPT ![w] = "recv"]
            /\ send_attempts' = [send_attempts EXCEPT ![w] = 0]
       ELSE /\ send_attempts' =
                 [send_attempts EXCEPT ![w] = (@ % MaxSendAttempts) + 1]
            /\ UNCHANGED <<ch_result, wpc>>
    /\ UNCHANGED otherVars
    /\ UNCHANGED <<kind, total_worker, plan, job_queue, data, wjob, recv_lock,
                   result_lock, got>>
    /\ UNCHANGED callerVars

\* acquire(&a_ch_result_s2) on the request-failure path ("failed") and on the
\* channel-closed path ("closed"), and the send that follows it.  Locking a
\* std::sync::Mutex on the thread that already holds it never returns: it
\* deadlocks or panics.
WorkerReacquire(w) ==
    /\ wpc[w] \in {"failed", "closed"}
    /\ IF Holds(result_lock, w)
       THEN \/ /\ wpc' = [wpc EXCEPT ![w] = "deadlocked"]
               /\ UNCHANGED <<recv_lock, result_lock, ch_result>>
            \/ /\ wpc' = [wpc EXCEPT ![w] = "panicked"]
               /\ recv_lock' = Release(recv_lock, w, TRUE)
               /\ result_lock' = Release(result_lock, w, TRUE)
               /\ UNCHANGED ch_result
       ELSE /\ result_lock.owner = 0
            /\ ~result_lock.poisoned
            /\ UNCHANGED result_lock
            /\ IF wpc[w] = "failed"
               THEN IF ResultRxAlive
                    THEN /\ ch_result' =
                              Append(ch_result, ErrResult("ReqwestError"))
                         /\ wpc' = [wpc EXCEPT ![w] = "recv"]
                         /\ UNCHANGED recv_lock
                    ELSE /\ wpc' = [wpc EXCEPT ![w] = "panicked"]
                         /\ recv_lock' = Release(recv_lock, w, TRUE)
                         /\ UNCHANGED ch_result
               ELSE /\ ch_result' =
                         IF ResultRxAlive
                         THEN Append(ch_result, ErrResult("RequestPoolError"))
                         ELSE ch_result
                    /\ wpc' = [wpc EXCEPT ![w] = "returned"]
                    /\ recv_lock' = Release(recv_lock, w, FALSE)
    /\ UNCHANGED <<send_attempts, otherVars>>
    /\ UNCHANGED <<kind, total_worker, plan, job_queue, data, wjob, got>>
    /\ UNCHANGED callerVars


\* ---- the calling thread: run(), wait(), close() -------------------------------
\* UploadRequestPool::run / DownloadRequestPool::run, called by the handler
\* loop for the next job of the plan; send() fails once the Receiver is gone
Run ==
    /\ callerPc = "run"
    /\ dispatched < Len(plan)
    /\ IF ch_data = "Some"
       THEN IF JobRxAlive
            THEN /\ job_queue' = Append(job_queue, plan[dispatched + 1])
                 /\ total_jobs' = total_jobs + 1
                 /\ dispatched' = dispatched + 1
                 /\ UNCHANGED <<callerPc, ch_data>>
            ELSE /\ callerPc' = "run_panicked"
                 /\ ch_data' = "None"
                 /\ UNCHANGED <<job_queue, total_jobs, dispatched>>
       ELSE /\ dispatched' = dispatched + 1
            /\ UNCHANGED <<job_queue, total_jobs, callerPc, ch_data>>
    /\ UNCHANGED <<send_attempts, otherVars>>
    /\ UNCHANGED <<kind, total_worker, plan, ch_result, data, results,
                   close_sent, waitRet, handlerRet, completion, wpc, wjob,
                   recv_lock, result_lock, got>>

\* Handler::multipart_uplodad: `fin.read_exact(&mut buffer)?` or
\* `fin.read_to_end(&mut tail_buffer)?` fails in the dispatch loop; the
\* handler returns Err and the pool is dropped with its job Sender and its
\* result Receiver, wait() is never called
HandlerAbort ==
    /\ kind = "upload"
    /\ callerPc = "run"
    /\ dispatched < Len(plan)
    /\ callerPc' = "aborted"
    /\ handlerRet' = "Err"
    /\ ch_data' = "None"
    /\ UNCHANGED <<send_attempts, otherVars>>
    /\ UNCHANGED <<kind, total_worker, plan, dispatched, job_queue, ch_result,
                   total_jobs, data, results, close_sent, waitRet, completion,
                   wpc, wjob, recv_lock, result_lock, got>>

\* wait(): self.ch_data.take()
WaitTake ==
    /\ callerPc = "run"
    /\ dispatched = Len(plan)
    /\ ch_data' = "None"
    /\ callerPc' = "wait"
    /\ UNCHANGED <<send_attempts, otherVars>>
    /\ UNCHANGED <<kind, total_worker, plan, dispatched, job_queue, ch_result,
                   total_jobs, data, results, close_sent, waitRet, handlerRet,
                   completion, wpc, wjob, recv_lock, result_lock, got>>

\* close(): `while let Some(ref ch_s) = self.ch_data` sends one stop job per
\* worker; with ch_data None the loop body never runs
CloseSent(chd, W) == IF chd = "Some" THEN W ELSE 0

\* the <Part> elements wait() writes, in the order of its results
Manifest(rs) == [i \in 1..Len(rs) |-> <<rs[i].job[1], rs[i].val>>]

\* UploadRequestPool::wait, once results.len() == total_jobs: `res?` returns
\* the first error, otherwise the manifest
UploadWaitResult(rs) ==
    IF \E i \in 1..Len(rs) : rs[i].tag # "Ok"
    THEN [tag |-> "Err", manifest |-> <<>>, buf |-> <<>>]
    ELSE [tag |-> "Ok", manifest |-> Manifest(rs), buf |-> <<>>]

\* DownloadRequestPool::wait, once results.len() == total_jobs: the results
\* are only logged, the buffer is returned
DownloadWaitResult(rs, buf) ==
    [tag |-> "Ok", manifest |-> <<>>, buf |-> buf]

\* variant: the loop of wait() ends one result early
WaitComplete_early(n, jobs) == n + 1 >= jobs

\* variant: the loop of wait() expects one result more than there are jobs
WaitComplete_late(n, jobs) == n = jobs + 1

\* the test that ends the loop of wait()
WaitComplete(n, jobs) == n = jobs

\* wait(): one turn of its loop: ch_result.recv().expect(..), push, test
WaitRecv ==
    /\ callerPc = "wait"
    /\ IF ch_result # <<>>
       THEN LET rs == Append(results, Head(ch_result))
                n == CloseSent(ch_data, total_worker)
                ret == IF kind = "upload"
                       THEN UploadWaitResult(rs)
                       ELSE DownloadWaitResult(rs, data)
            IN  /\ ch_result' = Tail(ch_result)
                /\ results' = rs
                /\ IF WaitComplete(Len(rs), total_jobs)
                   THEN /\ close_sent' = close_sent + n
                        /\ job_queue' =
                             job_queue \o [i \in 1..n |-> StopJob(kind)]
                        /\ waitRet' = ret
                        /\ callerPc' =
                             IF kind = "upload" /\ ret.tag = "Ok"
                             THEN "complete" ELSE "done"
                        /\ handlerRet' =
                             IF ret.tag = "Err" THEN "Err"
                             ELSE IF kind = "download" THEN "Ok"
                             ELSE handlerRet
                   ELSE UNCHANGED <<close_sent, job_queue, waitRet, callerPc,
                                    handlerRet>>
       ELSE \* recv() fails only when the queue is empty and every Sender is gone
            /\ ~ResultTxAlive
            /\ callerPc' = "wait_panicked"
            /\ UNCHANGED <<ch_result, results, close_sent, job_queue, waitRet,
                           handlerRet>>
    /\ UNCHANGED <<send_attempts, otherVars>>
    /\ UNCHANGED <<kind, total_worker, plan, dispatched, ch_data, total_jobs,
                   data, completion, wpc, wjob, recv_lock, result_lock, got>>

\* Handler::multipart_uplodad after `rp.wait()?`: the completion request
UploadComplete ==
    /\ callerPc = "complete"
    /\ completion' = Append(completion, waitRet.manifest)
    /\ \E outcome \in {"Ok", "Err"} : handlerRet' = outcome
    /\ callerPc' = "done"
    /\ UNCHANGED <<send_attempts, otherVars>>
    /\ UNCHANGED <<kind, total_worker, plan, dispatched, ch_data, job_queue,
                   ch_result, total_jobs, data, results, close_sent, waitRet,
                   wpc, wjob, recv_lock, result_lock, got>>

\* ---- the async S3Pool multipart upload ------------------------------------------
\* one of the futures handed to join_all completes
AsyncResponse(i) ==
    /\ kind = "async"
    /\ callerPc = "join"
    /\ got[i].st = "pending"
    /\ \/ \E etag \in 1..MaxETag :
            got' = [got EXCEPT ![i] = [st |-> "ok", val |-> etag]]
       \/ got' = [got EXCEPT ![i] = [st |-> "err", val |-> 0]]
    /\ UNCHANGED <<send_attempts, otherVars>>
    /\ UNCHANGED <<kind, total_worker, plan, job_queue, ch_result, data, wpc,
                   wjob, recv_lock, result_lock>>
    /\ UNCHANGED callerVars

\* the <Part> elements complete_multi_part_upload writes: idx + 1 and the ETag
\* of the idx-th response of join_all
AsyncManifest(reqs) == [i \in 1..Len(reqs) |-> <<i, reqs[i].val>>]

\* join_all has returned; S3Pool::complete_multi_part_upload
AsyncComplete ==
    /\ kind = "async"
    /\ callerPc = "join"
    /\ \A i \in 1..Len(got) : got[i].st # "pending"
    /\ IF \E i \in 1..Len(got) : got[i].st = "err"
       THEN /\ handlerRet' = "Err"
            /\ UNCHANGED completion
       ELSE /\ completion' = Append(completion, AsyncManifest(got))
            /\ \E outcome \in {"Ok", "Err"} : handlerRet' = outcome
    /\ callerPc' = "done"
    /\ UNCHANGED <<send_attempts, otherVars>>
    /\ UNCHANGED <<kind, total_worker, plan, dispatched, ch_data, job_queue,
                   ch_result, total_jobs, data, results, close_sent, waitRet,
                   wpc, wjob, recv_lock, result_lock, got>>

\* ---- specification ----------------------------------------------------------------
Next ==
    \/ \E w \in Workers : WorkerLockRecv(w)
    \/ \E w \in Workers : WorkerAcquireResult(w)
    \/ \E w \in Workers : WorkerRecv(w)
    \/ \E w \in Workers : WorkerRequest(w)
    \/ \E w \in Workers : WorkerResend(w)
    \/ \E w \in Workers : WorkerReacquire(w)
    \/ Run
    \/ HandlerAbort
    \/ WaitTake
    \/ WaitRecv
    \/ UploadComplete
    \/ \E i \in 1..Len(plan) : AsyncResponse(i)
    \/ AsyncComplete

Spec == Init /\ [][Next]_vars

\* threads are scheduled fairly, and every HTTP request is answered
Fairness ==
    /\ \A w \in 1..MaxWorkers :
         /\ WF_vars(w \in Workers /\ WorkerLockRecv(w))
         /\ WF_vars(w \in Workers /\ WorkerAcquireResult(w))
         /\ WF_vars(w \in Workers /\ WorkerRecv(w))
         /\ WF_vars(w \in Workers /\ WorkerRequest(w))
         /\ WF_vars(w \in Workers /\ WorkerResend(w))
         /\ WF_vars(w \in Workers /\ WorkerReacquire(w))
    /\ WF_vars(Run)
    /\ WF_vars(WaitTake)
    /\ WF_vars(WaitRecv)
    /\ WF_vars(UploadComplete)
    /\ WF_vars(\E i \in 1..Len(plan) : AsyncResponse(i))
    /\ WF_vars(AsyncComplete)

FairSpec == Spec /\ Fairness

\* nothing can happen any more: every thread has ended or is blocked for ever
Quiescent == ~ENABLED Next


\* ---- the handlers that plan a transfer: multipart_uplodad and get ----------------
\* no transfer runs in the pool
PoolIdle ==
    /\ kind = "none"
    /\ total_worker = 0
    /\ plan = <<>>
    /\ dispatched = 0
    /\ ch_data = "None"
    /\ job_queue = <<>>
    /\ ch_result = <<>>
    /\ total_jobs = 0
    /\ data = <<>>
    /\ results = <<>>
    /\ close_sent = 0
    /\ waitRet = NoRet
    /\ handlerRet = "none"
    /\ completion = <<>>
    /\ callerPc = "idle"
    /\ wpc = <<>>
    /\ wjob = <<>>
    /\ recv_lock = FreeLock
    /\ result_lock = FreeLock
    /\ got = <<>>
    /\ send_attempts = <<>>

\* cmp::min(10, total_part_number)
WorkerCap == 10

\* let total_part_number = (file_size / self.part_size + 1) as usize;
TotalPartNumber(size, ps) == (size \div ps) + 1

\* let worker_number = cmp::min(10, total_part_number);
WorkerNumber(k, size, ps) == Min(WorkerCap, TotalPartNumber(size, ps))

\* put() takes the multipart path when file_size > part_size, get() the
\* ranged path when size > 0 && size > part_size; S3Pool::push and
\* S3Pool::pull split when part_size > 0 && part_size < the object's length
HandlerKinds == {"upload", "download", "async", "async_download"}

IsAsync(k) == k \in {"async", "async_download"}

HandlerInit ==
    /\ \E k \in HandlerKinds, ps \in 1..MaxSplitSize :
         \E size \in (ps + 1)..MaxObjectSize :
           /\ h_kind = k
           /\ h_size = size
           /\ h_part_size = ps
    /\ h_pc = "start"
    /\ worker_number = 0
    /\ run_jobs = <<>>
    /\ PoolIdle
    /\ CallIdle
    /\ CanalIdle
    /\ RestIdle
    /\ RequestIdle
    /\ SignIdle

\* UploadRequestPool::new(.., worker_number) / DownloadRequestPool::new(..);
\* the asynchronous primitive spawns no worker, its requests are futures
HandlerNewPool ==
    /\ h_pc = "start"
    /\ worker_number' = IF IsAsync(h_kind) THEN 0
                        ELSE WorkerNumber(h_kind, h_size, h_part_size)
    /\ h_pc' = "dispatch"
    /\ UNCHANGED <<h_kind, h_size, h_part_size, run_jobs>>
    /\ UNCHANGED notHandlerVars

\* one turn of the dispatch loop: rp.run(..) / dp.run(..) of the next job
HandlerRun ==
    /\ h_pc = "dispatch"
    /\ Len(run_jobs) < Len(JobsOf(h_kind, h_size, h_part_size))
    /\ run_jobs' =
         Append(run_jobs, JobsOf(h_kind, h_size, h_part_size)[Len(run_jobs) + 1])
    /\ UNCHANGED <<h_pc, h_kind, h_size, h_part_size, worker_number>>
    /\ UNCHANGED notHandlerVars

\* the loop has ended: rp.wait() / dp.wait(), join_all(req_list).await
HandlerWait ==
    /\ h_pc = "dispatch"
    /\ Len(run_jobs) = Len(JobsOf(h_kind, h_size, h_part_size))
    /\ h_pc' = IF IsAsync(h_kind) THEN "join" ELSE "wait"
    /\ UNCHANGED <<h_kind, h_size, h_part_size, worker_number, run_jobs>>
    /\ UNCHANGED notHandlerVars

HandlerNext ==
    \/ HandlerNewPool
    \/ HandlerRun
    \/ HandlerWait

HandlerSpec == HandlerInit /\ [][HandlerNext]_vars

\* ---- Handler::request and the redirect it follows -------------------------------
Regions == {"r1", "r2"}

\* the host of the first request and the hosts an Endpoint element can name
RequestHost == "h1"
EndpointHosts == {"h2"}

\* bodies of a response: the text of its Endpoint elements in document
\* order, and whether the document can be read to its end
Bodies ==
    { [xml |-> x, endpoints |-> e] :
        x \in {"wellformed", "malformed"},
        e \in {<<>>} \cup {<<h>> : h \in EndpointHosts} }

\* what the server can answer: a status class, the x-amz-bucket-region
\* header (or none) and a body
Responses ==
    { [status |-> st, region |-> rg, body |-> b] :
        st \in {"2xx", "3xx", "4xx"},
        rg \in Regions \cup {"absent"},
        b \in Bodies }

\* AWS4Client::redirect_parser: the text of the last Endpoint element, the
\* empty string when there is none, Err when the XML reader fails
RedirectParser(body) ==
    IF body.xml = "malformed"
    THEN [tag |-> "Err", host |-> ""]
    ELSE [tag |-> "Ok",
          host |-> IF body.endpoints = <<>>
                   THEN ""
                   ELSE body.endpoints[Len(body.endpoints)]]

\* S3Client::update: AWS4Client stores the region, AWS2Client ignores it
Update(t, old, region) == IF t = "aws4" THEN region ELSE old

\* S3Client::current_region: Some(region) for AWS4Client, None for AWS2Client
CurrentRegion(t, region) == IF t = "aws4" THEN region ELSE "None"

\* the HTTP request the client sends: where to, what, signed for which region
Sent(host, call, region) == [host |-> host, call |-> call, region |-> region]

RequestInit ==
    /\ \E t \in {"aws2", "aws4"}, rg \in Regions, m \in {"GET", "PUT"} :
         /\ auth_type = t
         /\ client_region = rg
         /\ region_at_call = rg
         /\ rq_call = m
    /\ rq_pc = "start"
    /\ self_region = "none"
    /\ origin_region = "none"
    /\ rq_sent = <<>>
    /\ rq_first = NoResponse
    /\ rq_second = NoResponse
    /\ rq_ret = "none"
    /\ PoolIdle
    /\ CallIdle
    /\ CanalIdle
    /\ RestIdle
    /\ HandlerIdle
    /\ SignIdle

\* the first self.s3_client.request(..)? and the match on its status
RequestFirst ==
    /\ rq_pc = "start"
    /\ rq_sent' = Append(rq_sent, Sent(RequestHost, rq_call, client_region))
    /\ \/ \* the request fails: `?` returns the error
          /\ rq_ret' = "Err"
          /\ rq_pc' = "done"
          /\ UNCHANGED rq_first
       \/ \E resp \in Responses :
            /\ rq_first' = resp
            /\ IF resp.status = "3xx"
               THEN rq_pc' = "redirected" /\ UNCHANGED rq_ret
               ELSE rq_pc' = "done" /\ rq_ret' = "Ok"
    /\ UNCHANGED <<auth_type, client_region, self_region, origin_region,
                   region_at_call, rq_call, rq_second>>
    /\ UNCHANGED notRequestVars

\* the redirection branch up to the second request:
\* response_headers["x-amz-bucket-region"] panics when the header is
\* missing; then current_region(), update(..) and redirect_parser(..)?,
\* which is unimplemented!() in AWS2Client
RequestRedirect ==
    /\ rq_pc = "redirected"
    /\ IF rq_first.region = "absent"
       THEN /\ rq_ret' = "panic"
            /\ rq_pc' = "done"
            /\ UNCHANGED <<self_region, origin_region, client_region>>
       ELSE /\ self_region' = rq_first.region
            /\ origin_region' = CurrentRegion(auth_type, client_region)
            /\ client_region' = Update(auth_type, client_region, rq_first.region)
            /\ IF auth_type = "aws2"
               THEN rq_ret' = "panic" /\ rq_pc' = "done"
               ELSE IF RedirectParser(rq_first.body).tag = "Err"
                    THEN rq_ret' = "Err" /\ rq_pc' = "done"
                    ELSE rq_pc' = "reissue" /\ UNCHANGED rq_ret
    /\ UNCHANGED <<auth_type, region_at_call, rq_call, rq_sent, rq_first,
                   rq_second>>
    /\ UNCHANGED notRequestVars

\* variant: a re-issued request that is redirected again is followed again
AfterSecond_follow(status) == IF status = "3xx" THEN "reissue" ELSE "done"

\* `let (_status_code, body, response_headers) = ..`: the status of the
\* second response is not looked at
AfterSecond(status) == "done"

\* the second self.s3_client.request(..)?, update(origin_region.unwrap(), ..)
\* and Ok((body, response_headers))
RequestSecond ==
    /\ rq_pc = "reissue"
    /\ rq_sent' = Append(rq_sent,
                         Sent(RedirectParser(rq_first.body).host, rq_call,
                              client_region))
    /\ \/ \* the request fails: `?` returns before the region is put back
          /\ rq_ret' = "Err"
          /\ rq_pc' = "done"
          /\ UNCHANGED <<rq_second, client_region>>
       \/ \E resp \in Responses :
            /\ rq_second' = resp
            /\ rq_pc' = AfterSecond(resp.status)
            /\ IF origin_region = "None"
               THEN rq_ret' = "panic" /\ UNCHANGED client_region
               ELSE /\ client_region' =
                         Update(auth_type, client_region, origin_region)
                    /\ rq_ret' = IF AfterSecond(resp.status) = "done"
                                 THEN "Ok" ELSE rq_ret
    /\ UNCHANGED <<auth_type, self_region, origin_region, region_at_call,
                   rq_call, rq_first>>
    /\ UNCHANGED notRequestVars

RequestNext ==
    \/ RequestFirst
    \/ RequestRedirect
    \/ RequestSecond

RequestSpec == RequestInit /\ [][RequestNext]_vars

\* ---- AWS signature version 4: blocking AWS4Client and async V4Authorizer ---------
\* strings are sequences of characters, lines and fields are kept apart
Digit == <<"0", "1", "2", "3", "4", "5", "6", "7", "8", "9">>

RECURSIVE Pow10(_)
Pow10(n) == IF n = 0 THEN 1 ELSE 10 * Pow10(n - 1)

\* a number written with w digits, zero padded
Pad(n, w) == [i \in 1..w |-> Digit[((n \div Pow10(w - i)) % 10) + 1]]

\* the instants Utc::now() can return: date, time of day, milliseconds
Instants ==
    { [Y |-> 2015, M |-> mo, D |-> d, h |-> 12, m |-> 36, s |-> 0, ms |-> f] :
        mo \in {8, 12}, d \in {3, 30}, f \in {0, 123} }

\* utc.format("%Y%m%dT%H%M%SZ")
FormatBasic(t) ==
    Pad(t.Y, 4) \o Pad(t.M, 2) \o Pad(t.D, 2) \o <<"T">>
        \o Pad(t.h, 2) \o Pad(t.m, 2) \o Pad(t.s, 2) \o <<"Z">>

\* utc.format("%Y%m%d") / now.format("%Y%m%d")
FormatDate(t) == Pad(t.Y, 4) \o Pad(t.M, 2) \o Pad(t.D, 2)

\* now.to_rfc3339(): 2015-08-30T12:36:00+00:00, with the fraction of the
\* second after the seconds when there is one
ToRfc3339(t) ==
    Pad(t.Y, 4) \o <<"-">> \o Pad(t.M, 2) \o <<"-">> \o Pad(t.D, 2) \o <<"T">>
        \o Pad(t.h, 2) \o <<":">> \o Pad(t.m, 2) \o <<":">> \o Pad(t.s, 2)
        \o (IF t.ms = 0 THEN <<>> ELSE <<".">> \o Pad(t.ms, 3))
        \o <<"+", "0", "0", ":", "0", "0">>

\* s.retain(|c| !drop.contains(&c))
Retain(str, drop) == SelectSeq(str, LAMBDA c : c \notin drop)

\* variant: only the colons are taken out of the RFC 3339 text
Iso8601Str_keepDash(t) == SubSeq(Retain(ToRfc3339(t), {":"}), 1, 15) \o <<"Z">>

\* string_to_signed: `s.retain(..); format!("{}Z", &s[..15])`
Iso8601Str(t) == SubSeq(Retain(ToRfc3339(t), {"-", ":"}), 1, 15) \o <<"Z">>

\* sign: `s.retain(..); &s[..8]`
TimeStr(t) == SubSeq(Retain(ToRfc3339(t), {"-", ":"}), 1, 8)

\* HMAC-SHA256 and hex encoding, kept symbolic: equal results have equal
\* key and message
Hmac(key, msg) == <<"hmac", key, msg>>
HmacKey(mac) == mac[2]
HmacMsg(mac) == mac[3]
ToHex(bytes) == <<"hex", bytes>>

\* String::from("AWS4") + secret_key, and auth_str.split('-').next() + sign_key
KeyString(prefix, secret) == <<prefix, secret>>

\* "AWS4-HMAC-SHA256", split at its '-'
DefaultAuthStr == <<"AWS4", "HMAC", "SHA256">>
DefaultAction == "aws4_request"

\* aws_v4_get_string_to_signed
AwsV4GetStringToSigned(request, time_str, region, iam) ==
    [algorithm |-> DefaultAuthStr,
     time |-> time_str,
     scope |-> [date |-> SubSeq(time_str, 1, 8),
                region |-> region,
                service |-> IF iam THEN "iam" ELSE "s3",
                action |-> "aws4_request"],
     request |-> request]

\* variant: the service keys the signing key before the region does
AwsV4Sign_serviceFirst(secret, text, time_str, region, iam) ==
    ToHex(Hmac(Hmac(Hmac(Hmac(Hmac(KeyString("AWS4", secret), time_str),
                              IF iam THEN "iam" ELSE "s3"),
                         region),
                    "aws4_request"),
               text))

\* aws_v4_sign
AwsV4Sign(secret, text, time_str, region, iam) ==
    ToHex(Hmac(Hmac(Hmac(Hmac(Hmac(KeyString("AWS4", secret), time_str),
                              region),
                         IF iam THEN "iam" ELSE "s3"),
                    "aws4_request"),
               text))

\* V4Signature::string_to_signed
StringToSigned(request, auth_str, t, region, service, action) ==
    [algorithm |-> auth_str,
     time |-> Iso8601Str(t),
     scope |-> [date |-> SubSeq(Iso8601Str(t), 1, 8),
                region |-> region,
                service |-> service,
                action |-> action],
     request |-> request]

\* V4Signature::sign
V4Sign(request, auth_str, t, sign_key, region, service, action) ==
    ToHex(Hmac(Hmac(Hmac(Hmac(Hmac(KeyString(auth_str[1], sign_key), TimeStr(t)),
                              region),
                         service),
                    action),
               StringToSigned(request, auth_str, t, region, service, action)))

\* the Authorization header: algorithm, then Credential=access/date/region/
\* service/action, then the signature
AuthorizeString(auth_str, date, region, service, action, sig) ==
    [algorithm |-> auth_str,
     date |-> date,
     region |-> region,
     service |-> service,
     action |-> action,
     signature |-> sig]

SignInit ==
    /\ \E t \in Instants, k \in {"sk1", "sk2"}, rg \in Regions :
         /\ now = t
         /\ secret_key = k
         /\ sg_region = rg
    /\ \/ /\ sg_path = "blocking"
          /\ sg_service = "s3"
          /\ sg_auth_str = DefaultAuthStr
          /\ sg_action = DefaultAction
       \/ /\ sg_path = "async"
          /\ sg_service \in {"s3", "iam"}
          /\ sg_auth_str \in {DefaultAuthStr, <<"CEPH4", "HMAC", "SHA256">>}
          /\ sg_action \in {DefaultAction, "ceph4_request"}
    /\ sg_pc = "start"
    /\ sg_request = "request"
    /\ x_amz_date = <<>>
    /\ string_to_signed = <<>>
    /\ signature = <<>>
    /\ authorization = <<>>
    /\ PoolIdle
    /\ CallIdle
    /\ CanalIdle
    /\ RestIdle
    /\ HandlerIdle
    /\ RequestIdle

\* AWS4Client::request: the x-amz-date header, the signature and the
\* Authorization header, all from the one `utc`
SignBlocking ==
    /\ sg_pc = "start"
    /\ sg_path = "blocking"
    /\ LET time_str == FormatBasic(now)
           sts == AwsV4GetStringToSigned(sg_request, FormatBasic(now),
                                          sg_region, FALSE)
           sig == AwsV4Sign(secret_key, sts, FormatDate(now), sg_region, FALSE)
       IN  /\ x_amz_date' = time_str
           /\ string_to_signed' = sts
           /\ signature' = sig
           /\ authorization' =
                AuthorizeString(DefaultAuthStr, FormatDate(now), sg_region,
                                "s3", "aws4_request", sig)
    /\ sg_pc' = "signed"
    /\ UNCHANGED <<sg_path, now, secret_key, sg_region, sg_service,
                   sg_auth_str, sg_action, sg_request>>
    /\ UNCHANGED notSignVars

\* V4Authorizer::authorize: sign() sets the x-amz-date header on its way
SignAsync ==
    /\ sg_pc = "start"
    /\ sg_path = "async"
    /\ LET sig == V4Sign(sg_request, sg_auth_str, now, secret_key, sg_region,
                         sg_service, sg_action)
       IN  /\ x_amz_date' = Iso8601Str(now)
           /\ string_to_signed' =
                StringToSigned(sg_request, sg_auth_str, now, sg_region,
                               sg_service, sg_action)
           /\ signature' = sig
           /\ authorization' =
                AuthorizeString(sg_auth_str, FormatDate(now), sg_region,
                                sg_service, sg_action, sig)
    /\ sg_pc' = "signed"
    /\ UNCHANGED <<sg_path, now, secret_key, sg_region, sg_service,
                   sg_auth_str, sg_action, sg_request>>
    /\ UNCHANGED notSignVars

SignNext ==
    \/ SignBlocking
    \/ SignAsync

SignSpec == SignInit /\ [][SignNext]_vars

\* ---- canonicalisation: query strings and headers ---------------------------------
\* the characters that occur, in ascending order of their byte
Ascii ==
    <<" ", "%", "&", "+", "-", ".", "/", "0", "1", "2", "3", "4", "5", "6", "7",
      "8", "9", ":", ";", "=", "A", "B", "C", "D", "E", "F", "G", "H", "I", "J",
      "K", "L", "M", "N", "O", "P", "Q", "R", "S", "T", "U", "V", "W", "X", "Y",
      "Z", "_", "a", "b", "c", "d", "e", "f", "g", "h", "i", "j", "k", "l", "m",
      "n", "o", "p", "q", "r", "s", "t", "u", "v", "w", "x", "y", "z", "~">>

Byte(c) == CHOOSE i \in 1..Len(Ascii) : Ascii[i] = c

\* char::to_lowercase on these characters
LowerChar(c) ==
    IF Byte(c) \in Byte("A")..Byte("Z")
    THEN Ascii[Byte(c) - Byte("A") + Byte("a")]
    ELSE c

\* str::to_lowercase
ToLowercase(str) == [i \in 1..Len(str) |-> LowerChar(str[i])]

\* Ord for str: byte-wise lexicographic, a proper prefix comes first
RECURSIVE StrLess(_, _)
StrLess(x, y) ==
    IF y = <<>> THEN FALSE
    ELSE IF x = <<>> THEN TRUE
    ELSE IF x[1] = y[1] THEN StrLess(Tail(x), Tail(y))
    ELSE Byte(x[1]) < Byte(y[1])

\* str::trim, of spaces
Trim(str) ==
    LET inked == {i \in 1..Len(str) : str[i] # " "}
    IN  IF inked = {} THEN <<>>
        ELSE SubSeq(str, CHOOSE i \in inked : \A j \in inked : i <= j,
                         CHOOSE i \in inked : \A j \in inked : j <= i)

\* str::starts_with
StartsWith(str, prefix) ==
    Len(str) >= Len(prefix) /\ SubSeq(str, 1, Len(prefix)) = prefix

\* str::find(char): the index, from 0, of the first occurrence, -1 for None
Find(str, c) ==
    IF \E i \in 1..Len(str) : str[i] = c
    THEN (CHOOSE i \in 1..Len(str) :
            str[i] = c /\ \A j \in 1..(i - 1) : str[j] # c) - 1
    ELSE -1

\* one step of a stable sort of <<key, element>> entries: x goes behind
\* every entry whose key is not greater than its own
RECURSIVE InsertSorted(_, _)
InsertSorted(x, sorted) ==
    IF sorted = <<>> THEN <<x>>
    ELSE IF StrLess(x[1], sorted[1][1]) THEN <<x>> \o sorted
    ELSE <<sorted[1]>> \o InsertSorted(x, Tail(sorted))

\* slice::sort_by / sort_by_key on the keys: both are stable
RECURSIVE StableSort(_)
StableSort(keyed) ==
    IF keyed = <<>> THEN <<>>
    ELSE InsertSorted(keyed[Len(keyed)],
                      StableSort(SubSeq(keyed, 1, Len(keyed) - 1)))

\* variant: headers are compared by their names as written
HeaderKey_asWritten(h) == h[1]

\* a.0.to_lowercase(), the key the header sorts compare
HeaderKey(h) == ToLowercase(h[1])

\* headers.sort_by(|a, b| a.0.to_lowercase().as_str().cmp(..))
SortHeaders(headers) ==
    LET sorted == StableSort([i \in 1..Len(headers) |->
                                 <<HeaderKey(headers[i]), headers[i]>>])
    IN  [i \in 1..Len(sorted) |-> sorted[i][2]]

\* variant: the pairs stay in the order of the list
SortQuery_asGiven(query_strings) == query_strings

\* query_strings.sort_by_key(|a| a.0)
SortQuery(query_strings) ==
    LET sorted == StableSort([i \in 1..Len(query_strings) |->
                                 <<query_strings[i][1], query_strings[i]>>])
    IN  [i \in 1..Len(sorted) |-> sorted[i][2]]

\* form_urlencoded byte serialisation: letters, digits and * - . _ stay,
\* a space becomes +, every other byte becomes %XX
FormEncodeChar(c) ==
    CASE c = " " -> <<"+">>
      [] c = "%" -> <<"%", "2", "5">>
      [] c = "&" -> <<"%", "2", "6">>
      [] c = "+" -> <<"%", "2", "B">>
      [] c = "/" -> <<"%", "2", "F">>
      [] c = ":" -> <<"%", "3", "A">>
      [] c = ";" -> <<"%", "3", "B">>
      [] c = "=" -> <<"%", "3", "D">>
      [] c = "~" -> <<"%", "7", "E">>
      [] OTHER -> <<c>>

RECURSIVE FormEncode(_)
FormEncode(str) ==
    IF str = <<>> THEN <<>>
    ELSE FormEncodeChar(str[1]) \o FormEncode(Tail(str))

\* Serializer::append_pair: an & between pairs, then key=value encoded
AppendPair(encoded, q) ==
    (IF encoded = <<>> THEN <<>> ELSE encoded \o <<"&">>)
        \o FormEncode(q[1]) \o <<"=">> \o FormEncode(q[2])

\* q.1.find('~') == Some(1)
IsUploadId(value) == Find(value, "~") = 1

\* the loop of canonical_query_string over the sorted pairs: the encoded
\* pairs, and upload_id as the last pair of that shape left it
RECURSIVE QueryLoop(_, _, _, _)
QueryLoop(qs, number_of_qs, encoded, upload_id) ==
    IF qs = <<>> THEN encoded \o upload_id
    ELSE LET q == qs[1] IN
         IF IsUploadId(q[2])
         THEN QueryLoop(Tail(qs), number_of_qs, encoded,
                        (IF number_of_qs > 1 THEN <<"&">> ELSE <<>>)
                            \o q[1] \o <<"=">> \o q[2])
         ELSE QueryLoop(Tail(qs), number_of_qs, AppendPair(encoded, q),
                        upload_id)

\* aws.rs canonical_query_string
CanonicalQueryString(query_strings) ==
    QueryLoop(SortQuery(query_strings), Len(query_strings), <<>>, <<>>)

\* str::replace("%7E", "~")
RECURSIVE ReplaceTilde(_)
ReplaceTilde(str) ==
    IF str = <<>> THEN <<>>
    ELSE IF StartsWith(str, <<"%", "7", "E">>)
         THEN <<"~">> \o ReplaceTilde(SubSeq(str, 4, Len(str)))
         ELSE <<str[1]>> \o ReplaceTilde(Tail(str))

RECURSIVE AppendPairs(_, _)
AppendPairs(encoded, qs) ==
    IF qs = <<>> THEN encoded
    ELSE AppendPairs(AppendPair(encoded, qs[1]), Tail(qs))

\* Canonical::canonical_query_string of the async Request
AsyncCanonicalQueryString(qs) ==
    ReplaceTilde(AppendPairs(<<>>, SortQuery(qs)))

\* the end of a line; no name or value holds it
NL == "\n"

\* canonical_headers: the output, and the list as the call leaves it (the
\* sort is done in place)
CanonicalHeadersEntry(h) == ToLowercase(h[1]) \o <<":">> \o Trim(h[2]) \o <<NL>>

RECURSIVE Concat(_)
Concat(strs) == IF strs = <<>> THEN <<>> ELSE strs[1] \o Concat(Tail(strs))

CanonicalHeaders(headers) ==
    LET sorted == SortHeaders(headers)
    IN  [output  |-> Concat([i \in 1..Len(sorted) |->
                                CanonicalHeadersEntry(sorted[i])]),
         headers |-> sorted]

\* Vec<String>::join(";")
RECURSIVE Join(_, _)
Join(strs, sep) ==
    IF strs = <<>> THEN <<>>
    ELSE IF Len(strs) = 1 THEN strs[1]
    ELSE strs[1] \o sep \o Join(Tail(strs), sep)

SignHeaders(headers) ==
    LET sorted == SortHeaders(headers)
    IN  [output  |-> Join([i \in 1..Len(sorted) |-> ToLowercase(sorted[i][1])],
                          <<";">>),
         headers |-> sorted]

XAmzPrefix == <<"x", "-", "a", "m", "z", "-">>
XAmzDateName == <<"x", "-", "a", "m", "z", "-", "d", "a", "t", "e">>
DateName == <<"d", "a", "t", "e">>
ContentTypeName == <<"c", "o", "n", "t", "e", "n", "t", "-", "t", "y", "p", "e">>

\* h.0.to_lowercase().trim() of the header loops
HeaderName(h) == Trim(ToLowercase(h[1]))

IsAmzHeader(h) ==
    StartsWith(HeaderName(h), XAmzPrefix) /\ HeaderName(h) # XAmzDateName

CanonicalAmzHeaders(headers) ==
    LET amz == SelectSeq(SortHeaders(headers), IsAmzHeader)
    IN  Concat([i \in 1..Len(amz) |-> CanonicalHeadersEntry(amz[i])])

\* the value of the first header of that name, the empty string without one
FirstValue(headers, name) ==
    LET named == SelectSeq(headers, LAMBDA h : HeaderName(h) = name)
    IN  IF named = <<>> THEN <<>> ELSE named[1][2]

HasHeader(headers, name) ==
    \E i \in 1..Len(headers) : HeaderName(headers[i]) = name

\* format!("{:x}", md5::compute(content)): the digits are kept as a term
\* that names the content
Md5Hex(content) == <<"md5(">> \o content \o <<")">>

\* variant: the Date header is looked for first
DateLine_dateFirst(headers) ==
    IF HasHeader(headers, DateName) THEN FirstValue(headers, DateName)
    ELSE FirstValue(headers, XAmzDateName)

\* the has_date loops of aws_s3_v2_get_string_to_signed
DateLine(headers) ==
    IF HasHeader(headers, XAmzDateName) THEN FirstValue(headers, XAmzDateName)
    ELSE FirstValue(headers, DateName)

AwsS3V2GetStringToSigned(http_method, uri, headers, content) ==
    http_method \o <<NL>>
        \o (IF Len(content) > 0 THEN Md5Hex(content) ELSE <<>>) \o <<NL>>
        \o FirstValue(headers, ContentTypeName) \o <<NL>>
        \o DateLine(headers) \o <<NL>>
        \o CanonicalAmzHeaders(headers)
        \o uri

\* V2Signature::string_to_signed of the async Request
V2StringToSigned(request) ==
    request.method \o <<NL, NL, NL>> \o request.date \o <<NL>> \o request.path
        \o AsyncCanonicalQueryString(request.query)

\* hash_payload and the Sha256 of aws_v4_canonical_request: the digest of the
\* empty input is written out, every other digest is kept as a term that
\* names its input
Sha256Hex(input) ==
    IF input = <<>>
    THEN <<"e", "3", "b", "0", "c", "4", "4", "2", "9", "8", "f", "c", "1",
           "c", "1", "4", "9", "a", "f", "b", "f", "4", "c", "8", "9", "9",
           "6", "f", "b", "9", "2", "4", "2", "7", "a", "e", "4", "1", "e",
           "4", "6", "4", "9", "b", "9", "3", "4", "c", "a", "4", "9", "5",
           "9", "9", "1", "b", "7", "8", "5", "2", "b", "8", "5", "5">>
    ELSE <<"sha256(">> \o input \o <<")">>

\* aws_v4_canonical_request; sign_headers gets the list canonical_headers
\* has sorted
AwsV4CanonicalRequest(http_method, uri, query_strings, headers, payload) ==
    Sha256Hex(http_method \o <<NL>>
                  \o uri \o <<NL>>
                  \o CanonicalQueryString(query_strings) \o <<NL>>
                  \o CanonicalHeaders(headers).output \o <<NL>>
                  \o SignHeaders(CanonicalHeaders(headers).headers).output
                  \o <<NL>>
                  \o Sha256Hex(payload))

\* ---- Handler from a CredentialConfig, and the two addressing styles --------------
DEFAULT_REGION == "us-east-1"

\* credential.s3_type.clone().unwrap_or_else(|| "".to_string())
S3Type(s3_type) == IF s3_type = "None" THEN "" ELSE s3_type

\* impl From<&CredentialConfig> for Handler: the Handler it builds, or the
\* panic of region.unwrap(); the last arm takes DEFAULT_REGION for no region
HandlerFrom(credential) ==
    LET s3_type == S3Type(credential.s3_type)
        Built(format, url_style, region) ==
            [outcome |-> "Ok", auth_type |-> "AWS4", format |-> format,
             url_style |-> url_style, client_region |-> region,
             region |-> credential.region]
    IN  IF s3_type = "aws"
        THEN IF credential.region = "None" THEN [outcome |-> "panic"]
             ELSE Built("XML", "HOST", credential.region)
        ELSE IF s3_type = "ceph"
        THEN IF credential.region = "None" THEN [outcome |-> "panic"]
             ELSE Built("JSON", "PATH", credential.region)
        ELSE Built("XML", "PATH",
                   IF credential.region = "None" THEN DEFAULT_REGION
                   ELSE credential.region)

\* the region argument of UploadRequestPool::new and DownloadRequestPool::new:
\* self.region.clone().unwrap_or_else(|| "".to_string())
PoolRegion(handler) == IF handler.region = "None" THEN "" ELSE handler.region

\* self.key.clone().unwrap_or_else(|| "/".to_string())
KeyOrRoot(key) == IF key = "None" THEN <<"/">> ELSE key

VirturalHostStyleLinks(object, host) ==
    IF object.bucket # "None"
    THEN <<object.bucket \o <<".">> \o host, KeyOrRoot(object.key)>>
    ELSE <<host, <<"/">>>>

\* variant: the bucket is left out of the path
PathStyleLinks_noBucket(object, host) ==
    IF object.bucket # "None"
    THEN <<host, KeyOrRoot(object.key)>>
    ELSE <<host, <<"/">>>>

PathStyleLinks(object, host) ==
    IF object.bucket # "None"
    THEN <<host, <<"/">> \o object.bucket \o KeyOrRoot(object.key)>>
    ELSE <<host, <<"/">>>>

\* ---- one call of one of these functions -----------------------------------------
ListsOf(S, n) == UNION {[1..k -> S] : k \in 0..n}

\* the request of the AWS Signature Version 4 test vector, as
\* test_aws_v4_get_string_to_signed gives it
VectorHeaders ==
    {<<<<"X", "-", "A", "M", "Z", "-", "D", "a", "t", "e">>,
       <<"2", "0", "1", "5", "0", "8", "3", "0", "T", "1", "2", "3", "6",
         "0", "0", "Z">>>>,
     <<<<"H", "o", "s", "t">>,
       <<"i", "a", "m", ".", "a", "m", "a", "z", "o", "n", "a", "w", "s",
         ".", "c", "o", "m">>>>,
     <<<<"C", "o", "n", "t", "e", "n", "t", "-", "T", "y", "p", "e">>,
       <<"a", "p", "p", "l", "i", "c", "a", "t", "i", "o", "n", "/", "x",
         "-", "w", "w", "w", "-", "f", "o", "r", "m", "-", "u", "r", "l",
         "e", "n", "c", "o", "d", "e", "d", ";", " ", "c", "h", "a", "r",
         "s", "e", "t", "=", "u", "t", "f", "-", "8">>>>}

VectorQuery ==
    {<<<<"V", "e", "r", "s", "i", "o", "n">>,
       <<"2", "0", "1", "0", "-", "0", "5", "-", "0", "8">>>>,
     <<<<"A", "c", "t", "i", "o", "n">>,
       <<"L", "i", "s", "t", "U", "s", "e", "r", "s">>>>}

VectorSecret == "wJalrXUtnFEMI/K7MDENG+bPxRfiCYEXAMPLEKEY"

\* the lists that hold every element of S once
OrdersOf(S) ==
    {list \in [1..Cardinality(S) -> S] : \A x \in S : \E i \in DOMAIN list : list[i] = x}

V4Calls ==
    [http_method : {<<"G", "E", "T">>}, uri : {<<"/">>},
     query_strings : OrdersOf(VectorQuery), headers : OrdersOf(VectorHeaders),
     payload : {<<>>, <<"p">>},
     time_str : {<<"2", "0", "1", "5", "0", "8", "3", "0", "T", "1", "2",
                   "3", "6", "0", "0", "Z">>},
     region : {"us-east-1"}, iam : BOOLEAN]

\* the arguments considered for a call of fn
CallArgs(fn) ==
    LET keys == {<<"a">>, <<"b">>}
        headers == {<<<<"D", "a", "t", "e">>, <<"1">>>>,
                    <<<<"x", "-", "a", "m", "z", "-", "d", "a", "t", "e">>, <<"2">>>>,
                    <<<<"X", "-", "A", "m", "z", "-", "A", "c", "l">>, <<" ", "3">>>>,
                    <<<<"C", "o", "n", "t", "e", "n", "t", "-", "T", "y", "p", "e">>, <<"4">>>>,
                    <<<<"H", "o", "s", "t">>, <<"5">>>>}
        s3objects == [bucket : {"None", <<"b">>}, key : {"None", <<"/", "k">>}]
    IN  CASE fn = "canonical_query_string" ->
                 ListsOf(keys \X {<<"1">>, <<" ", "/">>, <<"2", "~", "a">>,
                                  <<"~", "~">>}, MaxPairs)
          [] fn \in {"canonical_headers", "sign_headers"} ->
                 ListsOf({<<"a">>, <<"B">>, <<"b">>} \X {<<"1">>, <<" ", "2">>},
                         MaxHeaders)
          [] fn = "aws_s3_v2_get_string_to_signed" ->
                 [http_method : {<<"G">>}, uri : {<<"/", "k">>},
                  headers : ListsOf(headers, MaxHeaders),
                  content : {<<>>, <<"p">>}]
          [] fn = "string_to_signed" ->
                 [method : {<<"G">>}, date : {<<"1">>}, path : {<<"/", "k">>},
                  query : ListsOf(keys \X {<<"1">>, <<"2", "~", "a">>},
                                  MaxPairs)]
          [] fn = "Handler::from" ->
                 [s3_type : {"None", "aws", "ceph", "other"},
                  region : {"None", "r1"}]
          [] fn \in {"path_style_links", "virtural_host_style_links"} ->
                 s3objects \X {<<"h">>}
          [] fn = "RequestPool::new" ->
                 {h \in {HandlerFrom(c) :
                             c \in [s3_type : {"None", "aws", "ceph", "other"},
                                    region : {"None", "r1"}]} :
                     h.outcome = "Ok"} \X {"upload", "download"}
          [] fn = "aws_v4_get_string_to_signed" -> V4Calls
          [] fn = "aws_v4_sign" ->
                 [secret_key : {VectorSecret},
                  data : {AwsV4GetStringToSigned(
                              AwsV4CanonicalRequest(c.http_method, c.uri,
                                  c.query_strings, c.headers, c.payload),
                              c.time_str, c.region, c.iam) : c \in V4Calls},
                  time_str : {<<"2", "0", "1", "5", "0", "8", "3", "0">>},
                  region : {"us-east-1", "r1"}, iam : BOOLEAN]

CallFns ==
    {"canonical_query_string", "canonical_headers", "sign_headers",
     "aws_s3_v2_get_string_to_signed", "string_to_signed", "Handler::from",
     "path_style_links", "virtural_host_style_links",
     "aws_v4_get_string_to_signed", "aws_v4_sign", "RequestPool::new"}

CallInit ==
    /\ PoolIdle /\ HandlerIdle /\ RequestIdle /\ SignIdle /\ CanalIdle
    /\ RestIdle
    /\ call_pc = "start"
    /\ call_fn \in CallFns
    /\ call_arg \in CallArgs(call_fn)
    /\ call_ret = <<>>

Returns(fn, ret) ==
    /\ call_pc = "start"
    /\ call_fn = fn
    /\ call_pc' = "returned"
    /\ call_ret' = ret
    /\ UNCHANGED <<call_fn, call_arg>>
    /\ UNCHANGED notCallVars

CallCanonicalQueryString ==
    Returns("canonical_query_string", CanonicalQueryString(call_arg))

CallCanonicalHeaders ==
    Returns("canonical_headers", CanonicalHeaders(call_arg))

CallSignHeaders ==
    Returns("sign_headers", SignHeaders(call_arg))

CallAwsS3V2GetStringToSigned ==
    Returns("aws_s3_v2_get_string_to_signed",
            AwsS3V2GetStringToSigned(call_arg.http_method, call_arg.uri,
                                     call_arg.headers, call_arg.content))

CallV2StringToSigned ==
    Returns("string_to_signed", V2StringToSigned(call_arg))

CallHandlerFrom ==
    Returns("Handler::from", HandlerFrom(call_arg))

CallPathStyleLinks ==
    Returns("path_style_links", PathStyleLinks(call_arg[1], call_arg[2]))

CallVirturalHostStyleLinks ==
    Returns("virtural_host_style_links",
            VirturalHostStyleLinks(call_arg[1], call_arg[2]))

CallAwsV4GetStringToSigned ==
    Returns("aws_v4_get_string_to_signed",
            AwsV4GetStringToSigned(
                AwsV4CanonicalRequest(call_arg.http_method, call_arg.uri,
                                      call_arg.query_strings, call_arg.headers,
                                      call_arg.payload),
                call_arg.time_str, call_arg.region, call_arg.iam))

CallAwsV4Sign ==
    Returns("aws_v4_sign",
            AwsV4Sign(call_arg.secret_key, call_arg.data, call_arg.time_str,
                      call_arg.region, call_arg.iam))

\* the pool Handler::multipart_uplodad and Handler::get build for the parts:
\* the region its workers sign with, next to the region of the Handler's client
CallRequestPoolNew ==
    Returns("RequestPool::new",
            [kind |-> call_arg[2],
             client_region |-> call_arg[1].client_region,
             pool_region |-> PoolRegion(call_arg[1])])

CallNext ==
    \/ CallCanonicalQueryString
    \/ CallCanonicalHeaders
    \/ CallSignHeaders
    \/ CallAwsS3V2GetStringToSigned
    \/ CallV2StringToSigned
    \/ CallHandlerFrom
    \/ CallPathStyleLinks
    \/ CallVirturalHostStyleLinks
    \/ CallAwsV4GetStringToSigned
    \/ CallAwsV4Sign
    \/ CallRequestPoolNew

CallSpec == CallInit /\ [][CallNext]_vars

\* ---- Canal: two pools and the objects selected on them ---------------------------
\* resource locations: two file paths and an s3 URL
Locations == {"/x", "/y", "s3://b/k"}

\* FilePool::new: a path is taken as it is, a URL of scheme s3 is refused
FilePoolNew(path) == IF path = "s3://b/k" THEN "SchemeError" ELSE "Ok"

\* the Canal the constructor makes of the pool it is called on
CanalInit ==
    /\ PoolIdle /\ HandlerIdle /\ RequestIdle /\ SignIdle /\ CallIdle
    /\ RestIdle
    /\ canal_pc = "open"
    /\ up_pool = "base"
    /\ down_pool = "None"
    /\ pool_ops = <<>>
    /\ \E made \in {"as_base_from", "as_target_to", "bucket"}, loc \in Locations :
           /\ canal_ret = [method |-> made, result |-> "Ok"]
           /\ IF made = "as_base_from"
              THEN /\ upstream_object = "None"
                   /\ downstream_object = loc
                   /\ default_pool = "DownPool"
              ELSE /\ upstream_object = loc
                   /\ downstream_object = "None"
                   /\ default_pool = "UpPool"

\* Canal::is_connect
IsConnect == up_pool # "None" /\ down_pool # "None"

\* Canal::toward: self is dropped when FilePool::new fails
CanalToward ==
    /\ canal_pc = "open"
    /\ \E loc \in Locations :
           /\ canal_ret' = [method |-> "toward", result |-> FilePoolNew(loc)]
           /\ IF FilePoolNew(loc) = "Ok"
              THEN /\ down_pool' = "file"
                   /\ upstream_object' = loc
                   /\ UNCHANGED canal_pc
              ELSE /\ canal_pc' = "done"
                   /\ UNCHANGED <<down_pool, upstream_object>>
    /\ UNCHANGED <<up_pool, downstream_object, default_pool, pool_ops>>
    /\ UNCHANGED notCanalVars

\* Canal::from
CanalFrom ==
    /\ canal_pc = "open"
    /\ \E loc \in Locations :
           /\ canal_ret' = [method |-> "from", result |-> FilePoolNew(loc)]
           /\ IF FilePoolNew(loc) = "Ok"
              THEN /\ up_pool' = "file"
                   /\ downstream_object' = loc
                   /\ UNCHANGED canal_pc
              ELSE /\ canal_pc' = "done"
                   /\ UNCHANGED <<up_pool, downstream_object>>
    /\ UNCHANGED <<down_pool, upstream_object, default_pool, pool_ops>>
    /\ UNCHANGED notCanalVars

\* variant: the up pool alone decides
BothSet_upOnly(up, down) == up # "None"

\* the arm (Some(up_pool), Some(down_pool)) of the match in push and pull
BothSet(up, down) == up # "None" /\ down # "None"

\* the body of push and pull: the object is pulled from one pool and pushed
\* to the other; each expect() panics on None, each pool operation may fail,
\* and self is consumed
Transfer(method, src_pool, src_object, dst_pool, dst_object) ==
    LET pulled == [pool |-> src_pool, op |-> "pull", object |-> src_object]
        pushed == [pool |-> dst_pool, op |-> "push", object |-> dst_object]
        Ends(ops, result) ==
            /\ pool_ops' = ops
            /\ canal_ret' = [method |-> method, result |-> result]
    IN  /\ canal_pc = "open"
        /\ canal_pc' = "done"
        /\ IF ~BothSet(up_pool, down_pool)
           THEN Ends(<<>>, "PoolUninitializeError")
           ELSE IF src_object = "None" THEN Ends(<<>>, "panic")
           ELSE \/ Ends(<<pulled>>, "Err")
                \/ /\ dst_object = "None"
                   /\ Ends(<<pulled>>, "panic")
                \/ /\ dst_object # "None"
                   /\ \E result \in {"Ok", "Err"} : Ends(<<pulled, pushed>>, result)
        /\ UNCHANGED <<up_pool, upstream_object, down_pool, downstream_object,
                       default_pool>>
        /\ UNCHANGED notCanalVars

\* Canal::push: from the down pool to the up pool
CanalPush ==
    Transfer("push", down_pool, downstream_object, up_pool, upstream_object)

\* Canal::pull: from the up pool to the down pool
CanalPull ==
    Transfer("pull", up_pool, upstream_object, down_pool, downstream_object)

CanalNext ==
    \/ CanalToward
    \/ CanalFrom
    \/ CanalPush
    \/ CanalPull

CanalSpec == CanalInit /\ [][CanalNext]_vars

\* ---- S3Pool as a folder: the listing and next_object ------------------------------
\* a ListBucketResult: the Name element, then one Contents element per
\* object; a body that is not XML makes the reader fail
ListBodies ==
    [name : {"b"}, contents : ListsOf({"k1", "k2"}, MaxObjects),
     wellformed : BOOLEAN]

\* s3object_list_xml_parser: one S3Object at the end of the Name element,
\* with the bucket alone, and one at the end of every Contents element
S3objectListXmlParser(body) ==
    IF ~body.wellformed THEN <<"Err">>
    ELSE <<"Ok", <<[bucket |-> body.name, key |-> "None"]>>
                     \o [i \in 1..Len(body.contents) |->
                            [bucket |-> body.name, key |-> body.contents[i]]]>>

\* S3Pool::new, and the response the listing request is about to get
ListInit ==
    /\ PoolIdle /\ HandlerIdle /\ RequestIdle /\ SignIdle /\ CallIdle
    /\ CanalIdle /\ ChangeIdle /\ LegacyIdle
    /\ ls_pc = "fresh"
    /\ ls_body \in ListBodies
    /\ objects = <<>>
    /\ ls_returned = <<>>

\* S3Pool::handle_list_response
HandleListResponse ==
    /\ ls_pc = "fresh"
    /\ LET parsed == S3objectListXmlParser(ls_body)
       IN  IF parsed[1] = "Ok"
           THEN /\ objects' = parsed[2]
                /\ ls_pc' = "listed"
           ELSE /\ ls_pc' = "failed"
                /\ UNCHANGED objects
    /\ UNCHANGED <<ls_body, ls_returned>>
    /\ UNCHANGED notListVars

\* S3Pool::next_object, called while the caller goes on asking
NextObject ==
    /\ ls_pc = "listed"
    /\ Len(ls_returned) < Len(ls_body.contents) + MaxObjects
    /\ IF objects = <<>>
       THEN /\ ls_returned' = Append(ls_returned, <<"None">>)
            /\ UNCHANGED objects
       ELSE /\ ls_returned' = Append(ls_returned, <<"Some", objects[1]>>)
            /\ objects' = Tail(objects)
    /\ UNCHANGED <<ls_pc, ls_body>>
    /\ UNCHANGED notListVars

ListNext ==
    \/ HandleListResponse
    \/ NextObject

ListSpec == ListInit /\ [][ListNext]_vars

\* ---- Handler: the change_* commands of the shell ----------------------------------
EndsWith(str, suffix) ==
    /\ Len(str) >= Len(suffix)
    /\ SubSeq(str, Len(str) - Len(suffix) + 1, Len(str)) = suffix

Aws == <<"a", "w", "s">>
Aws2 == <<"a", "w", "s", "2">>
Aws4 == <<"a", "w", "s", "4">>
Ceph == <<"c", "e", "p", "h">>
Xml == <<"x", "m", "l">>
Json == <<"j", "s", "o", "n">>
Path == <<"p", "a", "t", "h">>
Host == <<"h", "o", "s", "t">>

\* the commands given to the change_* methods
Commands == {Aws, Aws2, Aws4, Ceph, Xml, Json, Path, Host, <<"s", "3">>, <<>>}

\* auth_type, format, url_style and the kind of the installed client
Settings == <<cg_auth_type, cg_format, cg_url_style, cg_client>>

\* a Handler as From<&CredentialConfig> builds it
ChangeInit ==
    /\ PoolIdle /\ HandlerIdle /\ RequestIdle /\ SignIdle /\ CallIdle
    /\ CanalIdle /\ ListIdle /\ LegacyIdle
    /\ \E c \in [s3_type : {"None", "aws", "ceph"}, region : {"None", "r1"}] :
         /\ HandlerFrom(c).outcome = "Ok"
         /\ cg_region = HandlerFrom(c).region
         /\ cg_auth_type = HandlerFrom(c).auth_type
         /\ cg_format = HandlerFrom(c).format
         /\ cg_url_style = HandlerFrom(c).url_style
    /\ cg_client = "AWS4Client"
    /\ cg_pc = "ready"
    /\ cg_call = [fn |-> "none", command |-> <<>>, before |-> <<>>]

\* Box::new(AWS4Client { .. region: self.region.clone().unwrap() }) and
\* the assignment to self.s3_client: unwrap() panics on None, and the
\* fields assigned before it keep their new values
InstallAws4Client ==
    IF cg_region = "None"
    THEN cg_pc' = "panicked" /\ UNCHANGED cg_client
    ELSE cg_client' = "AWS4Client" /\ UNCHANGED cg_pc

Called(fn, command) ==
    cg_call' = [fn |-> fn, command |-> command, before |-> Settings]

\* Handler::change_s3_type
ChangeS3Type ==
    /\ cg_pc = "ready"
    /\ \E command \in Commands :
         /\ Called("change_s3_type", command)
         /\ IF EndsWith(command, Aws)
            THEN /\ cg_auth_type' = "AWS4"
                 /\ cg_format' = "XML"
                 /\ cg_url_style' = "HOST"
                 /\ InstallAws4Client
            ELSE IF EndsWith(command, Ceph)
            THEN /\ cg_auth_type' = "AWS4"
                 /\ cg_format' = "JSON"
                 /\ cg_url_style' = "PATH"
                 /\ InstallAws4Client
            ELSE UNCHANGED <<cg_auth_type, cg_format, cg_url_style, cg_client,
                             cg_pc>>
    /\ UNCHANGED cg_region
    /\ UNCHANGED notChangeVars

\* Handler::change_auth_type
ChangeAuthType ==
    /\ cg_pc = "ready"
    /\ \E command \in Commands :
         /\ Called("change_auth_type", command)
         /\ IF EndsWith(command, Aws2)
            THEN /\ cg_auth_type' = "AWS2"
                 /\ cg_client' = "AWS2Client"
                 /\ UNCHANGED cg_pc
            ELSE IF EndsWith(command, Aws4) \/ EndsWith(command, Aws)
            THEN /\ cg_auth_type' = "AWS4"
                 /\ InstallAws4Client
            ELSE UNCHANGED <<cg_auth_type, cg_client, cg_pc>>
    /\ UNCHANGED <<cg_region, cg_format, cg_url_style>>
    /\ UNCHANGED notChangeVars

\* Handler::change_format_type
ChangeFormatType ==
    /\ cg_pc = "ready"
    /\ \E command \in Commands :
         /\ Called("change_format_type", command)
         /\ cg_format' = IF EndsWith(command, Xml) THEN "XML"
                          ELSE IF EndsWith(command, Json) THEN "JSON"
                          ELSE cg_format
    /\ UNCHANGED <<cg_pc, cg_region, cg_auth_type, cg_url_style, cg_client>>
    /\ UNCHANGED notChangeVars

\* Handler::change_url_style
ChangeUrlStyle ==
    /\ cg_pc = "ready"
    /\ \E command \in Commands :
         /\ Called("change_url_style", command)
         /\ cg_url_style' = IF EndsWith(command, Path) THEN "PATH"
                             ELSE IF EndsWith(command, Host) THEN "HOST"
                             ELSE cg_url_style
    /\ UNCHANGED <<cg_pc, cg_region, cg_auth_type, cg_format, cg_client>>
    /\ UNCHANGED notChangeVars

ChangeNext ==
    \/ ChangeS3Type
    \/ ChangeAuthType
    \/ ChangeFormatType
    \/ ChangeUrlStyle

ChangeSpec == ChangeInit /\ [][ChangeNext]_vars

\* ---- lib.rs Handler::_aws_v4_request and the redirects it follows -----------------
\* the requests one call is followed for
MaxRequests == 3

\* `let mut endpoint = "".to_string()`, then the text of every Endpoint
\* element assigned in turn
LegacyEndpoint(body) ==
    IF body.endpoints = <<>> THEN ""
    ELSE body.endpoints[Len(body.endpoints)]

\* the outer call: region None, endpoint None
LegacyInit ==
    /\ PoolIdle /\ HandlerIdle /\ RequestIdle /\ SignIdle /\ CallIdle
    /\ CanalIdle /\ ListIdle /\ ChangeIdle
    /\ lg_pc = "call"
    /\ lg_format \in {"XML", "JSON"}
    /\ lg_region = "None"
    /\ lg_endpoint = "None"
    /\ lg_response = NoResponse
    /\ lg_sent = 0
    /\ lg_ret = "none"

\* one activation of _aws_v4_request up to the match on the response:
\* action.body(payload.clone()).send()
LegacySend ==
    /\ lg_pc = "call"
    /\ lg_sent < MaxRequests
    /\ lg_sent' = lg_sent + 1
    /\ \/ \* Err(_) => Err("Reqwest Error")
          /\ lg_ret' = "Err"
          /\ lg_pc' = "done"
          /\ UNCHANGED lg_response
       \/ \E resp \in Responses :
            /\ lg_response' = resp
            /\ IF resp.status = "3xx"
               THEN lg_pc' = "redirected" /\ UNCHANGED lg_ret
               ELSE lg_pc' = "done" /\ lg_ret' = "Ok"
    /\ UNCHANGED <<lg_format, lg_region, lg_endpoint>>
    /\ UNCHANGED notLegacyVars

\* the arm `true` of res.status().is_redirection(): unimplemented!() for
\* JSON, panic on an XML error, then the call of self._aws_v4_request with
\* Some(region header) and Some(endpoint); indexing the headers panics when
\* x-amz-bucket-region is missing
LegacyRedirect ==
    /\ lg_pc = "redirected"
    /\ IF \/ lg_format = "JSON"
          \/ lg_response.body.xml = "malformed"
          \/ lg_response.region = "absent"
       THEN /\ lg_ret' = "panic"
            /\ lg_pc' = "done"
            /\ UNCHANGED <<lg_region, lg_endpoint>>
       ELSE /\ lg_region' = lg_response.region
            /\ lg_endpoint' = LegacyEndpoint(lg_response.body)
            /\ lg_pc' = "call"
            /\ UNCHANGED lg_ret
    /\ UNCHANGED <<lg_format, lg_response, lg_sent>>
    /\ UNCHANGED notLegacyVars

LegacyNext ==
    \/ LegacySend
    \/ LegacyRedirect

LegacySpec == LegacyInit /\ [][LegacyNext]_vars

\* ---- properties ---------------------------------------------------------------------
Blocking == kind \in {"upload", "download"}

\* 1 <= W <= N
InPoolRange == Blocking /\ 1 <= total_worker /\ total_worker <= Len(plan)

WaitReturned == waitRet.tag # "none"

\* wait() has been called
WaitCalled == callerPc \in {"wait", "wait_panicked", "complete", "done"}

Messages == results \o ch_result

Count(seq, t) == Cardinality({i \in 1..Len(seq) : seq[i].tag = t})

SomeErr == \E j \in 1..Len(got) : got[j].st = "err"
SomeShort == \E j \in 1..Len(got) : got[j].st = "short"
AllOk == \A j \in 1..Len(got) : got[j].st = "ok"

\* C1: with N >= 1 jobs and 1 <= W <= N workers, wait() has returned only
\* when it has received exactly N results, one per submitted job.
C1_WaitAfterAllResults ==
    (InPoolRange /\ WaitReturned) =>
        /\ total_jobs = Len(plan)
        /\ Len(results) = Len(plan)
        /\ \A j \in 1..Len(plan) :
             Cardinality({i \in 1..Len(results) : results[i].job = plan[j]}) = 1

C1_Witness ==
    /\ InPoolRange
    /\ WaitReturned
    /\ total_worker >= 2
    /\ Len(plan) >= 3
    /\ Len(results) = Len(plan)

\* C2: for every job whose request returned an error, the worker that took it
\* has sent exactly one Err result once it is past the failure branch, so the
\* Err results on the result channel number the failed jobs already handled.
C2_ErrorReported ==
    Blocking =>
        Count(Messages, "ReqwestError") =
            Cardinality({j \in 1..Len(got) : got[j].st = "err"})
            - Cardinality({w \in Workers : wpc[w] = "failed"})

\* C3: if the request of any job failed, wait() returns, and what it returns
\* is Err, with no manifest and no buffer.
C3_WaitReturnsErr ==
    (Blocking /\ SomeErr /\ WaitCalled) =>
        /\ Quiescent => WaitReturned
        /\ WaitReturned =>
             /\ waitRet.tag = "Err"
             /\ waitRet.manifest = <<>>
             /\ waitRet.buf = <<>>

\* C4: the completion request of a multipart upload is issued only after all
\* part results have been received and all are successes; if a part failed
\* the upload returns Err and no completion request is sent.
C4_CompletionOnlyAfterSuccess ==
    (kind \in {"upload", "async"}) =>
        /\ completion # <<>> =>
             /\ AllOk
             /\ kind = "upload" => Len(results) = Len(plan)
        /\ SomeErr =>
             /\ completion = <<>>
             /\ Quiescent => handlerRet = "Err"

\* C5: the completion manifest lists every dispatched part number exactly once,
\* in strictly ascending order, each with the ETag returned for that part.
GoodManifest(m) ==
    /\ Len(m) = Len(plan)
    /\ \A i \in 1..Len(m) : m[i] = <<plan[i][1], got[i].val>>
    /\ \A i \in 1..(Len(m) - 1) : m[i][1] < m[i + 1][1]

C5_ManifestAscending ==
    /\ (kind = "upload" /\ waitRet.tag = "Ok") => GoodManifest(waitRet.manifest)
    /\ \A c \in 1..Len(completion) : GoodManifest(completion[c])

C5_Witness ==
    /\ kind = "upload"
    /\ total_worker >= 2
    /\ Len(plan) >= 3
    /\ Len(completion) = 1
    /\ \E i \in 1..Len(plan) : got[i].val # got[1].val

\* C6: when every part of a ranged download succeeds, the buffer wait()
\* returns has length total_size and holds, in every dispatched range, the
\* bytes received for that range.
C6_BufferAssembled ==
    (kind = "download" /\ WaitReturned /\ AllOk) =>
        /\ waitRet.tag = "Ok"
        /\ Len(waitRet.buf) = plan[Len(plan)][2]
        /\ \A j \in 1..Len(plan) :
             \A i \in (plan[j][1] + 1)..plan[j][2] :
                waitRet.buf[i] = got[j].val

C6_Witness ==
    /\ kind = "download"
    /\ waitRet.tag = "Ok"
    /\ AllOk
    /\ total_worker >= 2
    /\ Len(plan) >= 3
    /\ \E j \in 1..Len(plan) : got[j].val # got[1].val

\* the handler gave up in its dispatch loop and never called wait()
Aborted == callerPc = "aborted"

\* C7: with 1 <= W <= N, if every part request succeeds (with the right
\* length) and the handler reaches wait(), then under fair scheduling wait()
\* eventually returns Ok.
C7_WaitEventuallyOk ==
    <>(~InPoolRange \/ waitRet.tag = "Ok" \/ SomeErr \/ SomeShort \/ Aborted)

C7_Witness ==
    /\ InPoolRange
    /\ waitRet.tag = "Ok"
    /\ AllOk
    /\ Len(plan) >= 2

\* C8: when the body of a download part has the wrong length, the aggregator
\* still gets a message for the part: wait() does not block for ever.
C8_ShortPartReported ==
    (kind = "download" /\ SomeShort /\ ~SomeErr /\ WaitCalled /\ Quiescent) =>
        WaitReturned

\* C9: by the time wait() returns, exactly total_worker stop sentinels have
\* been sent on the job channel.
C9_StopPerWorker ==
    (Blocking /\ WaitReturned) => close_sent = total_worker

\* C10: once the aggregator has finished a transfer, every worker thread
\* reaches its terminated state by returning from its loop.
C10_WorkersTerminate ==
    (Blocking /\ WaitReturned /\ Quiescent) =>
        \A w \in Workers : wpc[w] = "returned"

\* at most one worker is between taking a job and pushing its result
OneExecutorAtMost ==
    Cardinality({w \in Workers : wpc[w] \in {"request", "resend", "failed"}}) <= 1

\* C11: the job-channel mutex serializes only the pulling of a job, not its
\* execution: a worker that is executing the HTTP request of its part does
\* not hold the mutex of the job Receiver, so that another worker can pull
\* and execute at the same time.
C11_LockOnlyWhilePulling ==
    \A w \in Workers : wpc[w] = "request" => ~Holds(recv_lock, w)

\* C14: the step a worker takes after its recv() on the job channel failed
\* because the channel was closed sends exactly one RequestPoolError on the
\* result channel and ends the worker by returning.
C14_ClosedReportedOnce ==
    [][\A w \in Workers :
         (wpc[w] = "closed" /\ wpc'[w] # "closed") =>
            /\ wpc'[w] = "returned"
            /\ Count(ch_result', "RequestPoolError") =
                  Count(ch_result, "RequestPoolError") + 1]_vars

\* C15: the retry of a failed push onto the result channel is bounded: a
\* worker that is in its retry loop eventually leaves it, also when every
\* send attempt fails.
C15_RetryEnds ==
    \A w \in 1..MaxWorkers :
        (w \in Workers /\ wpc[w] = "resend")
            ~> (w \in Workers /\ wpc[w] # "resend")

\* C12: no job the handlers dispatch equals the stop sentinel: every upload
\* job has part_number >= 1 and every download job has start < end, hence is
\* never the range (0,0).
C12_NoJobIsSentinel ==
    \A i \in 1..Len(run_jobs) :
        /\ ~IsStop(h_kind, run_jobs[i])
        /\ run_jobs[i] # StopJob(h_kind)
        /\ h_kind = "upload" => run_jobs[i][1] >= 1
        /\ h_kind = "download" => run_jobs[i][1] < run_jobs[i][2]

C12_Witness ==
    /\ h_pc = "wait"
    /\ h_kind = "upload"
    /\ Len(run_jobs) >= 3
    /\ run_jobs[1][1] = 1

\* C13: the number of workers spawned is min(10, number of parts dispatched),
\* so 1 <= W <= N for every object size greater than part_size, exact
\* multiples of part_size included.
C13_WorkersWithinParts ==
    h_pc = "wait" =>
        /\ worker_number = Min(WorkerCap, Len(run_jobs))
        /\ 1 <= worker_number
        /\ worker_number <= Len(run_jobs)

\* the first response was a redirect that names a region and an endpoint
Redirected == rq_first.status = "3xx"

WellFormedRedirect ==
    /\ Redirected
    /\ rq_first.region # "absent"
    /\ rq_first.body.xml = "wellformed"
    /\ rq_first.body.endpoints # <<>>

\* C16: when the first response is a redirect, the call re-issues the same
\* method, URI, query, headers and payload exactly once, against the host of
\* the Endpoint element of the body, signed with the region of the
\* x-amz-bucket-region header; and when the call returns Ok the client's
\* signing region is what it was before the call.
C16_RedirectReissuedOnce ==
    (rq_pc = "done" /\ WellFormedRedirect) =>
        /\ rq_ret \in {"Ok", "Err"}
        /\ Len(rq_sent) = 2
        /\ rq_sent[2].call = rq_sent[1].call
        /\ rq_sent[2].host = rq_first.body.endpoints[1]
        /\ rq_sent[2].region = rq_first.region
        /\ rq_ret = "Ok" => client_region = region_at_call

\* C17: if the body of the redirect has no Endpoint element, or the re-issued
\* request is itself answered with a redirect, the call returns Err, and it
\* sends no request after the one that met the failure.
C17_RedirectFailureIsErr ==
    (rq_pc = "done" /\ auth_type = "aws4" /\ Redirected
        /\ rq_first.region # "absent" /\ rq_first.body.xml = "wellformed") =>
        /\ rq_first.body.endpoints = <<>> =>
              rq_ret = "Err" /\ Len(rq_sent) = 1
        /\ rq_second.status = "3xx" =>
              rq_ret = "Err" /\ Len(rq_sent) = 2

\* C18: whatever the server answers, one call of Handler::request issues at
\* most two HTTP requests: the original and at most one re-issue.
C18_AtMostTwoRequests == Len(rq_sent) <= 2

C18_Witness ==
    /\ rq_pc = "done"
    /\ Len(rq_sent) = 2
    /\ rq_second.status = "3xx"
    /\ rq_ret = "Ok"

\* the keys of the cascade behind a signature, innermost first
SigningKey(sig) == HmacKey(sig[2])
ServiceKey(sig) == HmacKey(SigningKey(sig))
RegionKey(sig) == HmacKey(ServiceKey(sig))
DateKey(sig) == HmacKey(RegionKey(sig))

\* C19: in every V4-signed request the x-amz-date header, the timestamp line
\* of the string to sign and the dates of the credential scope in the string
\* to sign and in the Authorization header come from one instant (the scope
\* date is the first 8 characters of x-amz-date), and the region and service
\* of the Authorization header are those of the string to sign and of the
\* signing-key derivation.
C19_OneInstantOneScope ==
    sg_pc = "signed" =>
        /\ x_amz_date = FormatBasic(now)
        /\ string_to_signed.time = x_amz_date
        /\ string_to_signed.scope.date = SubSeq(x_amz_date, 1, 8)
        /\ authorization.date = SubSeq(x_amz_date, 1, 8)
        /\ authorization.region = string_to_signed.scope.region
        /\ authorization.region = HmacMsg(RegionKey(signature))
        /\ authorization.service = string_to_signed.scope.service
        /\ authorization.service = HmacMsg(ServiceKey(signature))
        /\ authorization.signature = signature

C19_Witness ==
    /\ sg_pc = "signed"
    /\ sg_path = "async"
    /\ now.ms # 0
    /\ now.M < 10
    /\ sg_service = "iam"

\* the cascade the claim writes down
Cascade(secret, date8, region, service, sts) ==
    LET k1 == Hmac(KeyString("AWS4", secret), date8)
        k2 == Hmac(k1, region)
        k3 == Hmac(k2, service)
        k4 == Hmac(k3, "aws4_request")
    IN  ToHex(Hmac(k4, sts))

\* the two signers agree on the inputs of this state
SignersAgree ==
    V4Sign(sg_request, sg_auth_str, now, secret_key, sg_region, sg_service,
           sg_action)
      = AwsV4Sign(secret_key,
                  StringToSigned(sg_request, sg_auth_str, now, sg_region,
                                 sg_service, sg_action),
                  FormatDate(now), sg_region, sg_service = "iam")

\* C20 as claimed: the signature is hex(HMAC(k4, string to sign)) with
\* k1 = HMAC("AWS4" + secret, date8), k2 = HMAC(k1, region),
\* k3 = HMAC(k2, service), k4 = HMAC(k3, "aws4_request"), in this order, and
\* the blocking and the async signer compute the same value for the same
\* secret, date, region, service and string to sign.
C20_CascadeAsClaimed ==
    sg_pc = "signed" =>
        /\ signature = Cascade(secret_key, FormatDate(now), sg_region,
                               sg_service, string_to_signed)
        /\ SignersAgree

\* C20 amended: the same, for the async signer in its default setting
\* auth_str = "AWS4-HMAC-SHA256" and action = "aws4_request"; the async
\* signer takes the key prefix from auth_str and the last key message from
\* action.
C20_CascadeWithDefaults ==
    (sg_pc = "signed" /\ sg_auth_str = DefaultAuthStr
        /\ sg_action = DefaultAction) =>
        /\ signature = Cascade(secret_key, FormatDate(now), sg_region,
                               sg_service, string_to_signed)
        /\ SignersAgree

C20_Witness ==
    /\ sg_pc = "signed"
    /\ sg_path = "async"
    /\ sg_auth_str = DefaultAuthStr
    /\ sg_action = DefaultAction
    /\ sg_service = "iam"
    /\ now.ms # 0

\* the call of fn has returned
Returned(fn) == call_fn = fn /\ call_pc = "returned"

\* the pieces of str between the occurrences of sep
RECURSIVE SplitOn(_, _)
SplitOn(str, sep) ==
    IF Find(str, sep) = -1 THEN <<str>>
    ELSE <<SubSeq(str, 1, Find(str, sep))>>
             \o SplitOn(SubSeq(str, Find(str, sep) + 2, Len(str)), sep)

\* the lower-cased names of the header list
LowerNames(headers) == {ToLowercase(headers[i][1]) : i \in 1..Len(headers)}

\* the value the list gives under a lower-cased name
ValueOf(headers, name) ==
    headers[CHOOSE i \in 1..Len(headers) :
                /\ ToLowercase(headers[i][1]) = name
                /\ \A j \in 1..(i - 1) : ToLowercase(headers[j][1]) # name][2]

\* C21: aws_s3_v2_get_string_to_signed puts on the date line the value of
\* the x-amz-date header when there is one and the value of the Date header
\* otherwise, lists among the canonical amz headers only headers that start
\* with x-amz- and never x-amz-date, leaves the MD5 line empty for an empty
\* payload and the content-type line empty without a content-type header,
\* and ends with the resource path, without a query string.
C21_V2StringToSigned ==
    Returned("aws_s3_v2_get_string_to_signed") =>
        LET lines == SplitOn(call_ret, NL)
            n == Len(lines)
            names == LowerNames(call_arg.headers)
        IN  /\ n >= 5
            /\ lines[1] = call_arg.http_method
            /\ call_arg.content = <<>> => lines[2] = <<>>
            /\ ContentTypeName \notin names => lines[3] = <<>>
            /\ XAmzDateName \in names =>
                   lines[4] = ValueOf(call_arg.headers, XAmzDateName)
            /\ (XAmzDateName \notin names /\ DateName \in names) =>
                   lines[4] = ValueOf(call_arg.headers, DateName)
            /\ \A i \in 5..(n - 1) :
                   /\ StartsWith(lines[i], XAmzPrefix)
                   /\ ~StartsWith(lines[i], XAmzDateName \o <<":">>)
            /\ lines[n] = call_arg.uri

C21_Witness ==
    /\ Returned("aws_s3_v2_get_string_to_signed")
    /\ {XAmzDateName, DateName} \subseteq LowerNames(call_arg.headers)
    /\ call_arg.content = <<>>
    /\ SplitOn(call_ret, NL)[4] = ValueOf(call_arg.headers, XAmzDateName)

\* C22: for the same method, Date value, resource path and query parameters
\* (empty payload, no content-type, no x-amz headers) the async
\* string_to_signed is the string aws_s3_v2_get_string_to_signed gives; it
\* ends with the resource path and holds no query string.
C22_AsyncV2AsBlocking ==
    Returned("string_to_signed") =>
        call_ret = AwsS3V2GetStringToSigned(
                       call_arg.method, call_arg.path,
                       <<<<<<"D", "a", "t", "e">>, call_arg.date>>>>, <<>>)

\* the second character of the value is a tilde
SecondCharTilde(value) == Len(value) >= 2 /\ value[2] = "~"

\* the list without its i-th element
Without(list, i) == SubSeq(list, 1, i - 1) \o SubSeq(list, i + 1, Len(list))

\* the standard form of a list of pairs: sorted by key, each pair encoded
\* as key=value, joined by &
Standard(pairs) == AppendPairs(<<>>, SortQuery(pairs))

\* what the call is to return when the i-th pair is the upload id
WithUploadId(pairs, i) ==
    IF Len(pairs) > 1
    THEN Standard(Without(pairs, i))
             \o <<"&">> \o pairs[i][1] \o <<"=">> \o pairs[i][2]
    ELSE pairs[i][1] \o <<"=">> \o pairs[i][2]

\* C23: given pairs of which exactly one has a value whose second
\* character is ~, canonical_query_string returns the form-encoded,
\* key-sorted remainder followed by &key=value with the value verbatim, and
\* key=value without the & when that pair is the only one.
C23_UploadIdVerbatim ==
    Returned("canonical_query_string") =>
        \A i \in 1..Len(call_arg) :
            (/\ SecondCharTilde(call_arg[i][2])
             /\ \A j \in 1..Len(call_arg) :
                    j # i => ~SecondCharTilde(call_arg[j][2]))
                => call_ret = WithUploadId(call_arg, i)

\* the orders the elements of a list can be put in
Orders(n) ==
    {f \in [1..n -> 1..n] : \A i, j \in 1..n : i # j => f[i] # f[j]}

Permuted(list, f) == [i \in 1..Len(list) |-> list[f[i]]]

NoUploadId(pairs) == \A i \in 1..Len(pairs) : ~SecondCharTilde(pairs[i][2])

\* ascending in the key, byte-wise
KeyAscending(pairs) ==
    \A i \in 1..(Len(pairs) - 1) : ~StrLess(pairs[i + 1][1], pairs[i][1])

\* C24: for a list in which no value is upload-id shaped,
\* canonical_query_string returns the pairs in ascending byte-wise key
\* order, each form-encoded as key=value, joined by &, and the same string
\* for every order of the input list.
C24_SortedWhateverTheOrder ==
    (Returned("canonical_query_string") /\ NoUploadId(call_arg)) =>
        /\ \E f \in Orders(Len(call_arg)) :
               /\ KeyAscending(Permuted(call_arg, f))
               /\ call_ret = AppendPairs(<<>>, Permuted(call_arg, f))
        /\ \A f \in Orders(Len(call_arg)) :
               CanonicalQueryString(Permuted(call_arg, f)) = call_ret

\* the names of the output of canonical_headers: what stands before the
\* colon on each of its lines
EntryNames(output) ==
    LET lines == SplitOn(output, NL)
    IN  [i \in 1..(Len(lines) - 1) |-> SplitOn(lines[i], ":")[1]]

\* ascending, byte-wise
Ascending(names) ==
    \A i \in 1..(Len(names) - 1) : ~StrLess(names[i + 1], names[i])

\* the names are the lower-cased names of the headers, one each
NamesOf(names, headers) ==
    /\ Len(names) = Len(headers)
    /\ \E f \in Orders(Len(headers)) :
           \A i \in 1..Len(headers) : names[i] = ToLowercase(headers[f[i]][1])

\* C25: for every header list the entries of the canonical_headers output
\* and the names of the sign_headers output are in ascending order of the
\* lower-cased header name, and the function applied again to the list as
\* sorted gives the same output.
C25_HeadersSortedIdempotent ==
    /\ Returned("canonical_headers") =>
           /\ NamesOf(EntryNames(call_ret.output), call_arg)
           /\ Ascending(EntryNames(call_ret.output))
           /\ CanonicalHeaders(call_ret.headers) = call_ret
    /\ Returned("sign_headers") =>
           /\ call_arg # <<>> =>
                  /\ NamesOf(SplitOn(call_ret.output, ";"), call_arg)
                  /\ Ascending(SplitOn(call_ret.output, ";"))
           /\ SignHeaders(call_ret.headers) = call_ret

C25_Witness ==
    /\ Returned("canonical_headers")
    /\ call_arg = <<<<<<"B">>, <<" ", "2">>>>, <<<<"a">>, <<"1">>>>>>
    /\ call_ret.output = <<"a", ":", "1", NL, "b", ":", "2", NL>>

\* C26: building a Handler from a CredentialConfig without region does not
\* panic and gives a V4 client that signs with us-east-1, whatever s3_type
\* is (None, "aws", "ceph" or another string).
C26_NoRegionIsDefaultRegion ==
    (Returned("Handler::from") /\ call_arg.region = "None") =>
        /\ call_ret.outcome = "Ok"
        /\ call_ret.auth_type = "AWS4"
        /\ call_ret.client_region = DEFAULT_REGION

\* C27: a CredentialConfig without s3_type gives a Handler with the auth
\* type, the response format and the URL style of the same CredentialConfig
\* with s3_type "aws" (taken with a region, so that both Handlers are built).
C27_NoTypeIsAws ==
    (Returned("Handler::from") /\ call_arg.s3_type = "None"
        /\ call_arg.region # "None") =>
        LET aws == HandlerFrom([call_arg EXCEPT !.s3_type = "aws"])
        IN  /\ call_ret.auth_type = aws.auth_type
            /\ call_ret.format = aws.format
            /\ call_ret.url_style = aws.url_style

\* C28: for an object with bucket b and key k and a host h, path style gives
\* host h and URI /b followed by k, virtual-host style gives host b.h and
\* URI k; without bucket both give host h and URI /, and without key the key
\* part is /.
C28_AddressingStyles ==
    LET object == call_arg[1]
        h == call_arg[2]
        k == IF object.key = "None" THEN <<"/">> ELSE object.key
    IN  /\ Returned("path_style_links") =>
               call_ret = IF object.bucket = "None" THEN <<h, <<"/">>>>
                          ELSE <<h, <<"/">> \o object.bucket \o k>>
        /\ Returned("virtural_host_style_links") =>
               call_ret = IF object.bucket = "None" THEN <<h, <<"/">>>>
                          ELSE <<object.bucket \o <<".">> \o h, k>>

C28_Witness ==
    /\ Returned("path_style_links")
    /\ call_arg[1] = [bucket |-> <<"b">>, key |-> <<"/", "k">>]
    /\ call_ret = <<<<"h">>, <<"/", "b", "/", "k">>>>

\* the canal is as its constructor made it
JustMade ==
    canal_pc = "open"
        /\ canal_ret.method \in {"as_base_from", "as_target_to", "bucket"}

\* C29: is_connect() is true exactly when up_pool and down_pool are both
\* set: a canal made of a single pool (as_base_from, as_target_to,
\* S3Pool::bucket) is not connected, and after a successful toward() or
\* from() it is connected.
C29_ConnectedAfterTowardOrFrom ==
    /\ JustMade => ~IsConnect
    /\ (canal_pc = "open" /\ canal_ret.method \in {"toward", "from"}
            /\ canal_ret.result = "Ok") => IsConnect

\* C30: push() and pull() return Err(PoolUninitializeError) whenever up_pool
\* or down_pool is not set, and then no pull, push or other operation is
\* performed on either pool.
C30_UnsetPoolNoOperation ==
    (canal_pc = "done" /\ canal_ret.method \in {"push", "pull"}
        /\ (up_pool = "None" \/ down_pool = "None")) =>
        /\ canal_ret.result = "PoolUninitializeError"
        /\ pool_ops = <<>>

C30_Witness ==
    /\ canal_pc = "done"
    /\ canal_ret = [method |-> "pull", result |-> "PoolUninitializeError"]
    /\ up_pool = "base"
    /\ upstream_object = "/x"
    /\ down_pool = "None"
    /\ pool_ops = <<>>

\* C31: after a listing response with k objects has been handled, the calls
\* of next_object return those k objects, once each and in listing order, as
\* Some, and every later call returns None.
C31_ListedObjectsInOrder ==
    ls_pc = "listed" =>
        \A i \in 1..Len(ls_returned) :
            ls_returned[i] =
                IF i <= Len(ls_body.contents)
                THEN <<"Some", [bucket |-> ls_body.name,
                                key |-> ls_body.contents[i]]>>
                ELSE <<"None">>

\* the canonical request of the AWS test vector, as AWS publishes it; its
\* SHA-256 is f536975d06c0309214f805bb90ccff089219ecd68b2577efef23edd43b7e1a59
VectorCanonicalRequest ==
    <<"G", "E", "T", NL, "/", NL, "A", "c", "t", "i", "o", "n", "=", "L",
      "i", "s", "t", "U", "s", "e", "r", "s", "&", "V", "e", "r", "s", "i",
      "o", "n", "=", "2", "0", "1", "0", "-", "0", "5", "-", "0", "8", NL,
      "c", "o", "n", "t", "e", "n", "t", "-", "t", "y", "p", "e", ":", "a",
      "p", "p", "l", "i", "c", "a", "t", "i", "o", "n", "/", "x", "-", "w",
      "w", "w", "-", "f", "o", "r", "m", "-", "u", "r", "l", "e", "n", "c",
      "o", "d", "e", "d", ";", " ", "c", "h", "a", "r", "s", "e", "t", "=",
      "u", "t", "f", "-", "8", NL, "h", "o", "s", "t", ":", "i", "a", "m",
      ".", "a", "m", "a", "z", "o", "n", "a", "w", "s", ".", "c", "o", "m",
      NL, "x", "-", "a", "m", "z", "-", "d", "a", "t", "e", ":", "2", "0",
      "1", "5", "0", "8", "3", "0", "T", "1", "2", "3", "6", "0", "0", "Z",
      NL, NL, "c", "o", "n", "t", "e", "n", "t", "-", "t", "y", "p", "e",
      ";", "h", "o", "s", "t", ";", "x", "-", "a", "m", "z", "-", "d", "a",
      "t", "e", NL, "e", "3", "b", "0", "c", "4", "4", "2", "9", "8", "f",
      "c", "1", "c", "1", "4", "9", "a", "f", "b", "f", "4", "c", "8", "9",
      "9", "6", "f", "b", "9", "2", "4", "2", "7", "a", "e", "4", "1", "e",
      "4", "6", "4", "9", "b", "9", "3", "4", "c", "a", "4", "9", "5", "9",
      "9", "1", "b", "7", "8", "5", "2", "b", "8", "5", "5">>

\* the string to sign of the vector: its fourth line is the digest of the
\* canonical request
VectorStringToSign ==
    [algorithm |-> <<"AWS4", "HMAC", "SHA256">>,
     time |-> <<"2", "0", "1", "5", "0", "8", "3", "0", "T", "1", "2", "3",
               "6", "0", "0", "Z">>,
     scope |-> [date |-> <<"2", "0", "1", "5", "0", "8", "3", "0">>,
                region |-> "us-east-1", service |-> "iam",
                action |-> "aws4_request"],
     request |-> <<"sha256(">> \o VectorCanonicalRequest \o <<")">>]

IsVectorCall ==
    /\ Returned("aws_v4_get_string_to_signed")
    /\ call_arg.payload = <<>>
    /\ call_arg.iam

IsVectorSign ==
    /\ Returned("aws_v4_sign")
    /\ call_arg.data = VectorStringToSign
    /\ call_arg.region = "us-east-1"
    /\ call_arg.iam

\* C32: on the inputs of the AWS test vector (secret wJalr..., date
\* 20150830T123600Z, region us-east-1, service iam, GET / with query
\* Action=ListUsers&Version=2010-05-08 and the headers of the vector)
\* aws_v4_get_string_to_signed returns the four lines that end in the digest
\* of the canonical request of the vector (f536975d...), and aws_v4_sign
\* returns the HMAC chain of the vector over that string (5d672d79...).
C32_AwsTestVector ==
    /\ IsVectorCall => call_ret = VectorStringToSign
    /\ IsVectorSign =>
           call_ret = <<"hex",
                        <<"hmac",
                          <<"hmac",
                            <<"hmac",
                              <<"hmac",
                                <<"hmac", <<"AWS4", VectorSecret>>,
                                  <<"2", "0", "1", "5", "0", "8", "3", "0">>>>,
                                "us-east-1">>,
                              "iam">>,
                            "aws4_request">>,
                          VectorStringToSign>>>>

C32_Witness ==
    /\ IsVectorCall
    /\ call_arg.query_strings[1][1] = <<"V", "e", "r", "s", "i", "o", "n">>
    /\ call_arg.headers[1][1] = <<"X", "-", "A", "M", "Z", "-", "D", "a", "t", "e">>
    /\ call_ret.request = <<"sha256(">> \o VectorCanonicalRequest \o <<")">>

\* C33: no worker locks the mutex of the result Sender or of the job Receiver
\* while it holds a guard on that mutex, on any path of its loop (the
\* request-failure path and the channel-closed path included), so that no
\* worker blocks for ever on a lock of its own.
C33_NoSelfRelock ==
    \A w \in Workers :
        /\ wpc[w] \in {"failed", "closed"} => ~Holds(result_lock, w)
        /\ wpc[w] = "spawned" => ~Holds(recv_lock, w)
        /\ wpc[w] # "deadlocked"

\* C34: the region the workers of a multipart pool sign their part requests
\* with is the region the client of the Handler signs the initiate and the
\* completion call of the transfer with, also when no region is configured
\* (both are then us-east-1).
C34_PoolSignsWithClientRegion ==
    Returned("RequestPool::new") =>
        /\ call_ret.pool_region = call_ret.client_region
        /\ call_arg[1].region = "None" => call_ret.pool_region = DEFAULT_REGION

\* C35: every return of Handler::request, Ok or Err, the failures of the
\* endpoint parsing and of the re-issued request included, leaves the
\* client's signing region as it was before the call.
C35_RegionRestoredOnEveryReturn ==
    (rq_pc = "done" /\ rq_ret \in {"Ok", "Err"}) =>
        client_region = region_at_call

\* ceil(size / ps)
CeilDiv(size, ps) == (size + ps - 1) \div ps

RECURSIVE SumLengths(_, _)
SumLengths(jobs, n) == IF n = 0 THEN 0 ELSE SumLengths(jobs, n - 1) + jobs[n][2]

AllDispatched == h_pc \in {"wait", "join"}

\* the byte range a dispatched job stands for: a download job is its range,
\* an upload job is the next `length` bytes of the file read in sequence
RangeOf(i) ==
    IF h_kind \in {"download", "async_download"}
    THEN run_jobs[i]
    ELSE <<SumLengths(run_jobs, i - 1), SumLengths(run_jobs, i)>>

\* C36: the parts dispatched for one object tile it exactly: the ranges are
\* non-empty, each starts where the one before it ended, the first starts at
\* 0 and the last ends at size; upload parts are numbered 1..k with
\* k = ceil(size / part_size), each part_size long except possibly the last.
C36_PartsTileObject ==
    LET n == Len(run_jobs)
    IN  /\ \A i \in 1..n :
              /\ RangeOf(i)[1] < RangeOf(i)[2]
              /\ RangeOf(i)[1] = IF i = 1 THEN 0 ELSE RangeOf(i - 1)[2]
              /\ RangeOf(i)[2] <= h_size
        /\ h_kind \in {"upload", "async"} =>
              \A i \in 1..n :
                  /\ run_jobs[i][1] = i
                  /\ run_jobs[i][2] <= h_part_size
                  /\ i < CeilDiv(h_size, h_part_size) =>
                        run_jobs[i][2] = h_part_size
        /\ AllDispatched =>
              /\ n >= 1
              /\ RangeOf(n)[2] = h_size
              /\ n = CeilDiv(h_size, h_part_size)

\* all the parts are dispatched, three or more: of a download whose last
\* range is shorter than part_size, or of an upload whose size is a
\* multiple of part_size
C36_Witness ==
    /\ AllDispatched
    /\ Len(run_jobs) >= 3
    /\ \/ /\ h_kind = "download"
          /\ h_size % h_part_size # 0
       \/ /\ h_kind = "upload"
          /\ h_size % h_part_size = 0

\* the two forms a pair can take in the output: form-encoded, or verbatim
Renderings(q) ==
    {FormEncode(q[1]) \o <<"=">> \o FormEncode(q[2]),
     q[1] \o <<"=">> \o q[2]}

\* C37: every pair of the input appears exactly once in the output of
\* canonical_query_string: the output has as many &-separated pieces as the
\* input has pairs and each pair is one of them, also when two or more
\* values are upload-id shaped.
C37_EveryPairOnce ==
    Returned("canonical_query_string") =>
        IF call_arg = <<>> THEN call_ret = <<>>
        ELSE LET pieces == SplitOn(call_ret, "&")
             IN  /\ Len(pieces) = Len(call_arg)
                 /\ \A i \in 1..Len(call_arg) :
                        \E j \in 1..Len(pieces) :
                            pieces[j] \in Renderings(call_arg[i])

\* the auth_type tag names the kind of the installed client
TagAgrees ==
    \/ cg_auth_type = "AWS2" /\ cg_client = "AWS2Client"
    \/ cg_auth_type = "AWS4" /\ cg_client = "AWS4Client"

\* the command is one the method prints its usage for
Unrecognized(call) ==
    \/ /\ call.fn = "change_s3_type"
       /\ ~EndsWith(call.command, Aws)
       /\ ~EndsWith(call.command, Ceph)
    \/ /\ call.fn = "change_auth_type"
       /\ ~EndsWith(call.command, Aws2)
       /\ ~EndsWith(call.command, Aws4)
       /\ ~EndsWith(call.command, Aws)

\* C38: after any sequence of change_auth_type and change_s3_type calls,
\* whatever the configured region, the auth_type tag agrees with the kind of
\* the installed client, and a call with an unrecognized command leaves
\* auth_type, format, url_style and the client unchanged.
C38_TagAgreesWithClient ==
    cg_pc # "idle" =>
        /\ TagAgrees
        /\ Unrecognized(cg_call) => Settings = cg_call.before

\* C39: Canal::toward changes only the down side of the canal, it leaves
\* up_pool and upstream_object as they were; Canal::from leaves down_pool
\* and downstream_object as they were.
C39_TowardLeavesUpSide ==
    [][/\ CanalToward =>
            /\ up_pool' = up_pool
            /\ upstream_object' = upstream_object
       /\ CanalFrom =>
            /\ down_pool' = down_pool
            /\ downstream_object' = downstream_object]_vars

\* C40: _aws_v4_request follows at most one redirect: when the re-issued
\* request is answered with a redirection status no third request is sent,
\* so one call sends at most two HTTP requests whatever the server answers.
C40_LegacyAtMostTwoRequests == lg_sent <= 2

====
